---- MODULE Spec2Model ----
(***************************************************************************)
(* A model of biotite's text CIF codec                                     *)
(* (src/biotite/structure/io/pdbx/cif.py): CIFData, CIFColumn,             *)
(* CIFCategory, CIFBlock, CIFFile and the module's helper functions.       *)
(*                                                                         *)
(* A Python str is a sequence of one-character strings.  The alphabet has  *)
(* one line break ("\n") and the whitespace characters " ", "\t", "\n".    *)
(* A float is an integer number of sixteenths (all such values are exact   *)
(* binary floats), so that rendering it with str() and with "{:.3f}" can   *)
(* be computed digit by digit.                                             *)
(***************************************************************************)
EXTENDS Integers, Sequences, FiniteSets, TLC

VARIABLES
    col,        \* the CIFColumn under test (or NoColumn)
    args,       \* the arguments of the constructor call that built col
    out,        \* what the last call on col returned or raised
    qin,        \* the argument of the last _quote call
    qout,       \* what the last _quote call returned
    cat,        \* the CIFCategory under test (or NoCategory)
    cout,       \* what the last call on or for a category returned or raised
    file,       \* the CIFFile under test: its dict of block slots (or NoFile)
    forig,      \* the CIFFile whose serialized text file was read from
    ftext,      \* the text file was deserialized from
    fout,       \* what the last call on the file or one of its blocks returned
    parses,     \* per slot, the number of times a get parsed its raw text
    heap,       \* the objects that containers share by reference, by identity
    threads     \* per thread in a get call: its position and its locals

colVars == <<col, args, out>>
quoteVars == <<qin, qout>>
catVars == <<cat, cout>>
fileVars == <<file, forig, ftext, fout, parses>>
objVars == <<heap, threads>>
vars == <<col, args, out, qin, qout, cat, cout,
          file, forig, ftext, fout, parses, heap, threads>>

(***************************************************************************)
(* Bounds of the model.                                                    *)
(***************************************************************************)
MaxLen == 3        \* longest data array of a column under test
MaxQuoteLen == 3   \* longest argument of _quote
MaxRows == 2       \* most rows of a category built by the program
MaxTokens == 6     \* most data tokens of a looped category text
MaxLines == 4      \* most lines of a block text that is scanned

(***************************************************************************)
(* Characters and strings.                                                 *)
(***************************************************************************)
SQ == "'"
DQ == "\""
SP == " "
TAB == "\t"
NL == "\n"
US == "_"

Whitespace == {SP, TAB, NL}

Contains(s, c) == \E i \in 1..Len(s) : s[i] = c

\* All sequences over S of length 0..n.
SeqUpTo(S, n) == UNION {[1..k -> S] : k \in 0..n}

\* All sequences over S of length 1..n.
SeqFrom1(S, n) == UNION {[1..k -> S] : k \in 1..n}

Digit == <<"0", "1", "2", "3", "4", "5", "6", "7", "8", "9">>

IsDigit(c) == \E d \in 1..10 : Digit[d] = c

DigitValue(c) == (CHOOSE d \in 1..10 : Digit[d] = c) - 1

\* str(n) of a non-negative int.
RECURSIVE NatToStr(_)
NatToStr(n) ==
    IF n < 10 THEN <<Digit[n + 1]>>
    ELSE Append(NatToStr(n \div 10), Digit[(n % 10) + 1])

\* The digits of n, padded with zeros on the left to width w.
RECURSIVE ZeroPad(_, _)
ZeroPad(n, w) ==
    IF w = 0 THEN <<>>
    ELSE Append(ZeroPad(n \div 10, w - 1), Digit[(n % 10) + 1])

\* s without its trailing "0" characters, but never shorter than one character.
RECURSIVE StripZeros(_)
StripZeros(s) ==
    IF Len(s) > 1 /\ s[Len(s)] = "0" THEN StripZeros(SubSeq(s, 1, Len(s) - 1))
    ELSE s

\* int(s) of a text: the value of a non-empty string of digits.
RECURSIVE DigitsToNat(_)
DigitsToNat(s) ==
    IF Len(s) = 0 THEN 0
    ELSE 10 * DigitsToNat(SubSeq(s, 1, Len(s) - 1)) + DigitValue(s[Len(s)])

IsIntText(s) == Len(s) > 0 /\ \A i \in 1..Len(s) : IsDigit(s[i])

(***************************************************************************)
(* Floats: m stands for the float m/16.                                    *)
(***************************************************************************)
\* str(x): the shortest decimal that reads back as x, which for m/16 is its
\* exact decimal expansion with at least one digit after the point.
FloatToStr(m) ==
    NatToStr(m \div 16) \o <<".">> \o StripZeros(ZeroPad((m % 16) * 625, 4))

\* x rounded to thousandths as format(x, ".3f") rounds: to the nearest, a tie
\* (exact, as m/16 is exact) to the even neighbour.
RoundMilli(m) ==
    LET q == (m * 1000) \div 16
        r == (m * 1000) % 16
    IN  IF r > 8 \/ (r = 8 /\ q % 2 = 1) THEN q + 1 ELSE q

\* f"{x:.3f}"
Format3f(m) ==
    NatToStr(RoundMilli(m) \div 1000) \o <<".">> \o ZeroPad(RoundMilli(m) % 1000, 3)

(***************************************************************************)
(* MaskValue (biotite.structure.io.pdbx.component).                        *)
(***************************************************************************)
PRESENT == 0
INAPPLICABLE == 1
MISSING == 2

(***************************************************************************)
(* CIFData: an array and its element type ("str", "int", "float" or, for a *)
(* mask, "uint8").  None is a value of its own type.                       *)
(***************************************************************************)
None == [dtype |-> "NoneType", array |-> <<>>]

IsNone(x) == x.dtype = "NoneType"

\* Whether ndarray.astype(to) can convert element x of type from.
Convertible(x, from, to) ==
    IF from = "str" /\ to = "int" THEN IsIntText(x) ELSE TRUE

\* One element of ndarray.astype(to).
AsTypeElem(x, from, to) ==
    IF from = to THEN x
    ELSE IF to = "str" THEN (IF from = "float" THEN FloatToStr(x) ELSE NatToStr(x))
    ELSE IF from = "str" THEN DigitsToNat(x)
    ELSE IF from = "float" THEN x \div 16
    ELSE x

AsType(array, from, to) ==
    [i \in 1..Len(array) |-> AsTypeElem(array[i], from, to)]

\* CIFData(array, dtype): the array of an array-like of element type from,
\* cast to dtype.
CIFData(array, from, dtype) ==
    [dtype |-> dtype, array |-> AsType(array, from, dtype)]

(***************************************************************************)
(* CIFColumn.                                                              *)
(***************************************************************************)
NoColumn == [data |-> None, mask |-> None]

\* CIFColumn(data, mask).  data is [cifdata, dtype, array]: a CIFData object
\* (cifdata) or an array-like that the constructor coerces to text.  mask is
\* None or an array-like of presence codes.
\* CIFColumn with the two sentinel tokens exchanged.
CIFColumn_swapped(data, mask) ==
    LET d == IF data.cifdata
             THEN [dtype |-> data.dtype, array |-> data.array]
             ELSE CIFData(data.array, data.dtype, "str")
        inferred == [i \in 1..Len(d.array) |->
                        IF d.dtype = "str" /\ d.array[i] = <<"?">> THEN INAPPLICABLE
                        ELSE IF d.dtype = "str" /\ d.array[i] = <<".">> THEN MISSING
                        ELSE PRESENT]
    IN  IF IsNone(mask)
        THEN [exc |-> "None", data |-> d,
              mask |-> IF \A i \in 1..Len(inferred) : inferred[i] = PRESENT
                       THEN None
                       ELSE [dtype |-> "uint8", array |-> inferred]]
        ELSE IF Len(mask.array) # Len(d.array)
             THEN [exc |-> "IndexError", data |-> None, mask |-> None]
             ELSE [exc |-> "None", data |-> d,
                   mask |-> [dtype |-> "uint8", array |-> mask.array]]

\* CIFColumn without the comparison of the two lengths.
CIFColumn_unchecked(data, mask) ==
    LET d == IF data.cifdata
             THEN [dtype |-> data.dtype, array |-> data.array]
             ELSE CIFData(data.array, data.dtype, "str")
        inferred == [i \in 1..Len(d.array) |->
                        IF d.dtype = "str" /\ d.array[i] = <<".">> THEN INAPPLICABLE
                        ELSE IF d.dtype = "str" /\ d.array[i] = <<"?">> THEN MISSING
                        ELSE PRESENT]
    IN  IF IsNone(mask)
        THEN [exc |-> "None", data |-> d,
              mask |-> IF \A i \in 1..Len(inferred) : inferred[i] = PRESENT
                       THEN None
                       ELSE [dtype |-> "uint8", array |-> inferred]]
        ELSE [exc |-> "None", data |-> d,
              mask |-> [dtype |-> "uint8", array |-> mask.array]]

CIFColumn(data, mask) ==
    LET d == IF data.cifdata
             THEN [dtype |-> data.dtype, array |-> data.array]
             ELSE CIFData(data.array, data.dtype, "str")
        inferred == [i \in 1..Len(d.array) |->
                        IF d.dtype = "str" /\ d.array[i] = <<".">> THEN INAPPLICABLE
                        ELSE IF d.dtype = "str" /\ d.array[i] = <<"?">> THEN MISSING
                        ELSE PRESENT]
    IN  IF IsNone(mask)
        THEN [exc |-> "None", data |-> d,
              mask |-> IF \A i \in 1..Len(inferred) : inferred[i] = PRESENT
                       THEN None
                       ELSE [dtype |-> "uint8", array |-> inferred]]
        ELSE IF Len(mask.array) # Len(d.array)
             THEN [exc |-> "IndexError", data |-> None, mask |-> None]
             ELSE [exc |-> "None", data |-> d,
                   mask |-> [dtype |-> "uint8", array |-> mask.array]]

\* The presence code of element i of a column: PRESENT when no mask is stored.
MaskAt(c, i) == IF IsNone(c.mask) THEN PRESENT ELSE c.mask.array[i]

\* CIFColumn.as_item(): [exc, type, val], the exception raised or the Python
\* type and the value of what is returned.
as_item(c) ==
    LET ValueError == [exc |-> "ValueError", type |-> "NoneType", val |-> <<>>]
        str(v) == [exc |-> "None", type |-> "str", val |-> v]
    IN  IF IsNone(c.mask)
        THEN IF Len(c.data.array) # 1 THEN ValueError
             ELSE [exc |-> "None", type |-> c.data.dtype, val |-> c.data.array[1]]
        ELSE IF Len(c.mask.array) # 1 THEN ValueError
        ELSE LET mask == c.mask.array[1]
             IN  IF mask = PRESENT
                 THEN IF c.data.dtype = "float"
                      THEN str(Format3f(c.data.array[1]))
                      ELSE str(AsTypeElem(c.data.array[1], c.data.dtype, "str"))
                 ELSE IF mask = INAPPLICABLE THEN str(<<".">>)
                 ELSE IF mask = MISSING THEN str(<<"?">>)
                 ELSE [exc |-> "None", type |-> "NoneType", val |-> <<>>]

Max(S) == CHOOSE x \in S : \A y \in S : y <= x

\* The number of characters an element of the text array of a column can
\* hold (numpy's fixed-width unicode type): the longest element for text, 21
\* for the text of an int.
ItemChars(c) ==
    IF c.data.dtype = "str"
    THEN Max({1} \cup {Len(c.data.array[i]) : i \in 1..Len(c.data.array)})
    ELSE 21

\* s cut to at most n characters.
Truncate(s, n) == IF Len(s) > n THEN SubSeq(s, 1, n) ELSE s

\* masked_value=None
NoValue == [given |-> FALSE, val |-> <<>>]

\* CIFColumn.as_array(dtype, masked_value): [exc, dtype, array].
\* masked_value is [given, val]; given = FALSE stands for None.
\* as_array converting the whole array before it looks at the mask.
as_array_convert_all(c, dtype, masked_value) ==
    LET n == Len(c.data.array)
        Raise(e) == [exc |-> e, dtype |-> dtype, array |-> <<>>]
        Return(a) == [exc |-> "None", dtype |-> dtype, array |-> a]
    IN  IF \E i \in 1..n : ~Convertible(c.data.array[i], c.data.dtype, dtype)
        THEN Raise("ValueError")
        ELSE Return([i \in 1..n |->
                 IF MaskAt(c, i) = PRESENT \/ dtype = "str"
                 THEN AsTypeElem(c.data.array[i], c.data.dtype, dtype)
                 ELSE IF masked_value.given THEN masked_value.val ELSE 0])

as_array(c, dtype, masked_value) ==
    LET n == Len(c.data.array)
        Raise(e) == [exc |-> e, dtype |-> dtype, array |-> <<>>]
        Return(a) == [exc |-> "None", dtype |-> dtype, array |-> a]
    IN  IF IsNone(c.mask)
        THEN IF \E i \in 1..n : ~Convertible(c.data.array[i], c.data.dtype, dtype)
             THEN Raise("ValueError")
             ELSE Return(AsType(c.data.array, c.data.dtype, dtype))
        ELSE IF dtype = "str"
        THEN IF c.data.dtype = "float"
             \* np.array(..., type=dtype): 'type' is no keyword of np.array
             THEN Raise("TypeError")
             ELSE Return([i \in 1..n |->
                     IF MaskAt(c, i) \in {INAPPLICABLE, MISSING}
                     THEN IF masked_value.given
                          THEN Truncate(masked_value.val, ItemChars(c))
                          ELSE IF MaskAt(c, i) = INAPPLICABLE THEN <<".">> ELSE <<"?">>
                     ELSE AsTypeElem(c.data.array[i], c.data.dtype, "str")])
        ELSE IF \E i \in 1..n : MaskAt(c, i) = PRESENT
                    /\ ~Convertible(c.data.array[i], c.data.dtype, dtype)
             THEN Raise("ValueError")
             ELSE Return([i \in 1..n |->
                     IF MaskAt(c, i) = PRESENT
                     THEN AsTypeElem(c.data.array[i], c.data.dtype, dtype)
                     ELSE IF masked_value.given THEN masked_value.val ELSE 0])

(***************************************************************************)
(* _quote and _multiline.                                                  *)
(***************************************************************************)
\* Whether value is at least two characters long and starts and ends with q.
Enclosed(value, q) ==
    Len(value) >= 2 /\ value[1] = q /\ value[Len(value)] = q

Wrap(value, q) == <<q>> \o value \o <<q>>

\* _quote without the test for a leading '_'.
_quote_no_marker(value) ==
    IF Len(value) = 0 THEN <<SQ, SQ>>
    ELSE IF Enclosed(value, SQ) THEN value
    ELSE IF Enclosed(value, DQ) THEN value
    ELSE IF Contains(value, SQ) THEN Wrap(value, DQ)
    ELSE IF Contains(value, DQ) THEN Wrap(value, SQ)
    ELSE IF Contains(value, SP) THEN Wrap(value, SQ)
    ELSE IF Contains(value, TAB) THEN Wrap(value, SQ)
    ELSE IF Contains(value, NL) THEN Wrap(value, SQ)
    ELSE value

_quote(value) ==
    IF Len(value) = 0 THEN <<SQ, SQ>>
    ELSE IF Enclosed(value, SQ) THEN value
    ELSE IF Enclosed(value, DQ) THEN value
    ELSE IF value[1] = US THEN Wrap(value, SQ)
    ELSE IF Contains(value, SQ) THEN Wrap(value, DQ)
    ELSE IF Contains(value, DQ) THEN Wrap(value, SQ)
    ELSE IF Contains(value, SP) THEN Wrap(value, SQ)
    ELSE IF Contains(value, TAB) THEN Wrap(value, SQ)
    ELSE IF Contains(value, NL) THEN Wrap(value, SQ)
    ELSE value

_multiline(value) ==
    IF Contains(value, NL) THEN <<NL, ";">> \o value \o <<NL, ";", NL>>
    ELSE value

(***************************************************************************)
(* str and list operations of Python.                                      *)
(***************************************************************************)
\* s[a:b] with 0-based bounds that are already clipped to 0..len(s).
Slice(s, a, b) == IF a < b THEN SubSeq(s, a + 1, b) ELSE <<>>

\* str.startswith(prefix)
StartsWith(s, prefix) ==
    Len(s) >= Len(prefix) /\ SubSeq(s, 1, Len(prefix)) = prefix

\* str.find(c) of a character: the 0-based index of its first occurrence, -1
\* when there is none.
Find(s, c) ==
    IF Contains(s, c)
    THEN (CHOOSE i \in 1..Len(s) : s[i] = c /\ \A j \in 1..(i - 1) : s[j] # c) - 1
    ELSE -1

\* str.strip(): without leading and trailing whitespace.
Strip(s) ==
    IF \A i \in 1..Len(s) : s[i] \in Whitespace THEN <<>>
    ELSE LET a == CHOOSE i \in 1..Len(s) :
                      s[i] \notin Whitespace /\ \A j \in 1..(i - 1) : s[j] \in Whitespace
             b == CHOOSE i \in 1..Len(s) :
                      s[i] \notin Whitespace /\ \A j \in (i + 1)..Len(s) : s[j] \in Whitespace
         IN  SubSeq(s, a, b)

\* str.split(sep) for a one-character separator.
RECURSIVE Split(_, _)
Split(s, sep) ==
    LET At(i) == IF i = -1 THEN <<s>>
                 ELSE <<Slice(s, 0, i)>> \o Split(Slice(s, i + 1, Len(s)), sep)
    IN  At(Find(s, sep))

\* str.splitlines(): the lines of a text; a final line break opens no line.
RECURSIVE SplitLines(_)
SplitLines(text) ==
    LET At(i) == IF i = -1 THEN <<text>>
                 ELSE <<Slice(text, 0, i)>> \o SplitLines(Slice(text, i + 1, Len(text)))
    IN  IF Len(text) = 0 THEN <<>> ELSE At(Find(text, NL))

\* sep.join(parts)
RECURSIVE Join(_, _)
Join(parts, sep) ==
    IF Len(parts) = 0 THEN <<>>
    ELSE IF Len(parts) = 1 THEN parts[1]
    ELSE parts[1] \o sep \o Join(Tail(parts), sep)

\* "".join(parts)
Concat(parts) == Join(parts, <<>>)

\* str.ljust(width)
LJust(s, width) == s \o [i \in 1..(width - Len(s)) |-> SP]

\* str.split(): the maximal runs of non-whitespace characters.
RECURSIVE SplitWhitespace(_)
SplitWhitespace(s) ==
    LET Runs(t) ==
            LET W == {i \in 1..Len(t) : t[i] \in Whitespace}
                CutAt(i) ==
                    <<SubSeq(t, 1, i - 1)>> \o SplitWhitespace(SubSeq(t, i, Len(t)))
            IN  IF Len(t) = 0 THEN <<>>
                ELSE IF W = {} THEN <<t>>
                ELSE CutAt(CHOOSE k \in W : \A j \in W : k <= j)
    IN  Runs(Strip(s))

(***************************************************************************)
(* _split_one_line                                                         *)
(***************************************************************************)
\* re.findall of the three alternatives
\*     ('(?:'(?! )|[^'])*')(?:\s|$)
\*     ("(?:"(?! )|[^"])*")(?:\s|$)
\*     ([^\s]+)
\* followed by the removal of enclosing quotes.

\* The positions at which a quoted field that opens at p with quote q may
\* close: a q that ends the line or is followed by whitespace, with no q
\* followed by a space between p and it.
ClosingQuotes(line, p, q) ==
    {e \in (p + 1)..Len(line) :
        /\ line[e] = q
        /\ (e = Len(line) \/ line[e + 1] \in Whitespace)
        /\ \A k \in (p + 1)..(e - 1) : ~(line[k] = q /\ line[k + 1] = SP)}

\* The end of the run of non-whitespace characters that starts at p.
UnquotedEnd(line, p) ==
    CHOOSE r \in p..Len(line) :
        /\ \A k \in p..r : line[k] \notin Whitespace
        /\ (r = Len(line) \/ line[r + 1] \in Whitespace)

\* The match of the pattern at position p: [found, field, next], next being
\* the position after the match.  The repetition is greedy: the last closing
\* quote wins.
MatchAt(line, p) ==
    LET Quoted(e) == [found |-> TRUE, field |-> SubSeq(line, p, e),
                      next |-> IF e = Len(line) THEN e + 1 ELSE e + 2]
        Unquoted(r) == [found |-> TRUE, field |-> SubSeq(line, p, r), next |-> r + 1]
        Match(closing) ==
            IF closing # {} THEN Quoted(Max(closing))
            ELSE IF line[p] \notin Whitespace THEN Unquoted(UnquotedEnd(line, p))
            ELSE [found |-> FALSE, field |-> <<>>, next |-> p + 1]
    IN  Match(IF line[p] \in {SQ, DQ} THEN ClosingQuotes(line, p, line[p]) ELSE {})

\* field[1:-1] when the field starts and ends with the same quote character.
Unquote(field) ==
    IF field[1] = field[Len(field)] /\ field[1] \in {SQ, DQ}
    THEN Slice(field, 1, Len(field) - 1)
    ELSE field

RECURSIVE FindAll(_, _)
FindAll(line, p) ==
    LET After(m) == IF m.found THEN <<Unquote(m.field)>> \o FindAll(line, m.next)
                    ELSE FindAll(line, m.next)
    IN  IF p > Len(line) THEN <<>> ELSE After(MatchAt(line, p))

_split_one_line(line) == FindAll(line, 1)

(***************************************************************************)
(* dict: a sequence of [key, val] in insertion order.                      *)
(***************************************************************************)
Keys(d) == [i \in 1..Len(d) |-> d[i].key]

HasKey(d, key) == \E i \in 1..Len(d) : d[i].key = key

IndexOf(d, key) == CHOOSE i \in 1..Len(d) : d[i].key = key

\* d[key]
Get(d, key) == d[IndexOf(d, key)].val

\* d[key] = val: a new key goes last, a known key keeps its place.
Put(d, key, val) ==
    IF HasKey(d, key)
    THEN [d EXCEPT ![IndexOf(d, key)] = [key |-> key, val |-> val]]
    ELSE Append(d, [key |-> key, val |-> val])

\* del d[key]
Del(d, key) == SelectSeq(d, LAMBDA e : e.key # key)

(***************************************************************************)
(* The helper functions of the module.                                     *)
(***************************************************************************)
\* The name of no object: None where a str is expected.
NoName == <<"None">>

_is_empty(line) == Len(Strip(line)) = 0 \/ line[1] = "#"

\* "data_"
DataPrefix == <<"d", "a", "t", "a", US>>

\* "loop_"
LoopPrefix == <<"l", "o", "o", "p", US>>

\* _parse_data_block_name(line): line[5:], or NoName.
_parse_data_block_name(line) ==
    IF StartsWith(line, DataPrefix) THEN Slice(line, 5, Len(line)) ELSE NoName

\* _parse_category_name(line) of a non-empty line: line[1 : line.find(".")],
\* or NoName.  Without a "." the end of the slice is -1, the last character.
_parse_category_name(line) ==
    IF line[1] # US THEN NoName
    ELSE IF Find(line, ".") = -1 THEN Slice(line, 1, Len(line) - 1)
    ELSE Slice(line, 1, Find(line, "."))

_is_loop_start(line) == StartsWith(line, LoopPrefix)

\* _create_element_dict(lines, element_names, element_starts); the starts
\* are 0-based line numbers.
_create_element_dict(lines, element_names, element_starts) ==
    LET starts == Append(element_starts, Len(lines))
        RECURSIVE Build(_, _)
        Build(i, d) ==
            IF i > Len(element_names) THEN d
            ELSE Build(i + 1,
                       Put(d, element_names[i],
                           Join(SubSeq(lines, starts[i] + 1, starts[i + 1]), <<NL>>)))
    IN  Build(1, <<>>)

\* _to_single(lines, is_looped) from input line in_i on (1-based), processed
\* being the output lines written so far: [exc, lines].
RECURSIVE ToSingleFrom(_, _, _, _)
ToSingleFrom(lines, is_looped, in_i, processed) ==
    LET Raise(e) == [exc |-> e, lines |-> <<>>]
        AppendToLast(t) ==
            [processed EXCEPT ![Len(processed)] = @ \o <<SP>> \o t]
        \* the value that opens at line in_i and is closed by line j
        MultiLine(j) ==
            Tail(lines[in_i]) \o
            Concat([k \in 1..(j - in_i - 1) |-> <<NL>> \o lines[in_i + k]])
        Write(j, multi_line_str) ==
            IF is_looped
            THEN ToSingleFrom(lines, is_looped, j + 1, Append(processed, multi_line_str))
            \* processed_lines[-1] is None when nothing was written
            ELSE IF Len(processed) = 0 THEN Raise("TypeError")
            ELSE ToSingleFrom(lines, is_looped, j + 1, AppendToLast(multi_line_str))
        ClosedAt(j) == Write(j, _quote(MultiLine(j)))
        Closed(closing) ==
            \* lines[j] runs past the end when no line closes the value
            IF closing = {} THEN Raise("IndexError")
            ELSE ClosedAt(CHOOSE k \in closing : \A l \in closing : k <= l)
    IN  IF in_i > Len(lines) THEN [exc |-> "None", lines |-> processed]
        ELSE IF lines[in_i][1] = ";"
        THEN Closed({j \in (in_i + 1)..Len(lines) : lines[j] = <<";">>})
        ELSE IF ~is_looped /\ lines[in_i][1] # US
        THEN IF Len(processed) = 0 THEN Raise("TypeError")
             ELSE ToSingleFrom(lines, is_looped, in_i + 1, AppendToLast(lines[in_i]))
        ELSE ToSingleFrom(lines, is_looped, in_i + 1, Append(processed, lines[in_i]))

_to_single(lines, is_looped) == ToSingleFrom(lines, is_looped, 1, <<>>)

(***************************************************************************)
(* CIFCategory: [name, row_count, columns], columns being a dict of        *)
(* CIFColumn objects [data, mask].                                         *)
(***************************************************************************)
\* _row_count = None
NoRowCount == -1

\* CIFCategory(columns, name) for columns that are CIFColumn objects.
CIFCategory(columns, name) ==
    [name |-> name, row_count |-> NoRowCount, columns |-> columns]

\* The CIFColumn built from an array-like of text without a mask.
TextColumn(values) ==
    LET Object(c) == [data |-> c.data, mask |-> c.mask]
    IN  Object(CIFColumn([cifdata |-> FALSE, dtype |-> "str", array |-> values], None))

\* CIFCategory._deserialize_single(lines): [exc, dict].
RECURSIVE DeserializeSingleFrom(_, _, _)
DeserializeSingleFrom(lines, i, category_dict) ==
    LET Raise(e) == [exc |-> e, dict |-> <<>>]
        Column(parts, name) ==
            IF Len(name) < 2 THEN Raise("IndexError")
            ELSE IF Len(parts) < 2 THEN Raise("IndexError")
            ELSE DeserializeSingleFrom(lines, i + 1,
                     Put(category_dict, name[2], TextColumn(<<parts[2]>>)))
        Line(parts) ==
            IF Len(parts) = 0 THEN Raise("IndexError")
            ELSE Column(parts, Split(parts[1], "."))
    IN  IF i > Len(lines) THEN [exc |-> "None", dict |-> category_dict]
        ELSE Line(_split_one_line(lines[i]))

_deserialize_single(lines) == DeserializeSingleFrom(lines, 1, <<>>)

\* line.split() followed by the removal of enclosing quotes.
FastSplit(line) ==
    LET Unquoted(values) == [k \in 1..Len(values) |-> Unquote(values[k])]
    IN  Unquoted(SplitWhitespace(line))

\* The cycle through the column names started at the second name.
CycleIndex_restart(j, k) == (j % k) + 1

\* The column that receives token j (1-based) when the tokens cycle through
\* the k column names.
CycleIndex(j, k) == ((j - 1) % k) + 1

\* CIFCategory._deserialize_looped(lines, expect_whitespace): [exc, dict], the
\* dict holding the list of values of each column.
_deserialize_looped(lines, expect_whitespace) ==
    LET Raise(e) == [exc |-> e, dict |-> <<>>]
        Fields(data_line) ==
            IF expect_whitespace THEN _split_one_line(data_line)
            ELSE FastSplit(data_line)
        Fill(column_names, values) ==
            LET n_keys == Len(column_names)
                RECURSIVE Collect(_, _, _)
                Collect(key, j, acc) ==
                    IF j > Len(values) THEN acc
                    ELSE Collect(key, j + 1,
                                 IF column_names[CycleIndex(j, n_keys)] = key
                                 THEN Append(acc, values[j]) ELSE acc)
                RECURSIVE Build(_, _)
                Build(i, d) ==
                    IF i > n_keys THEN d
                    ELSE Build(i + 1, Put(d, column_names[i],
                                          Collect(column_names[i], 1, <<>>)))
            IN  \* next() of a cycle through no names
                IF n_keys = 0 /\ Len(values) > 0 THEN Raise("StopIteration")
                ELSE [exc |-> "None", dict |-> Build(1, <<>>)]
        Keys_(n_keys) ==
            IF \E i \in 1..n_keys : Len(Split(lines[i], ".")) < 2
            THEN Raise("IndexError")
            ELSE Fill([i \in 1..n_keys |-> Split(lines[i], ".")[2]],
                      Concat([i \in 1..(Len(lines) - n_keys) |->
                                 Fields(lines[n_keys + i])]))
    IN  Keys_(Cardinality({i \in 1..Len(lines) : \A l \in 1..i : lines[l][1] = US}))

\* CIFCategory.deserialize(text, expect_whitespace): [exc, cat].
CIFCategory_deserialize(text, expect_whitespace) ==
    LET Raise(e) == [exc |-> e, cat |-> CIFCategory(<<>>, NoName)]
        Columns(is_looped, category_dict) ==
            IF is_looped
            THEN [i \in 1..Len(category_dict) |->
                     [key |-> category_dict[i].key,
                      val |-> TextColumn(category_dict[i].val)]]
            ELSE category_dict
        Object(is_looped, category_name, parsed) ==
            IF parsed.exc # "None" THEN Raise(parsed.exc)
            \* CIFColumn of an empty list: _arrayfy raises ValueError
            ELSE IF is_looped /\ \E i \in 1..Len(parsed.dict) : Len(parsed.dict[i].val) = 0
            THEN Raise("ValueError")
            ELSE [exc |-> "None",
                  cat |-> CIFCategory(Columns(is_looped, parsed.dict), category_name)]
        Parse(is_looped, category_name, single) ==
            IF single.exc # "None" THEN Raise(single.exc)
            ELSE Object(is_looped, category_name,
                        IF is_looped
                        THEN _deserialize_looped(single.lines, expect_whitespace)
                        ELSE _deserialize_single(single.lines))
        Named(is_looped, lines, category_name) ==
            IF category_name = NoName THEN Raise("DeserializationError")
            ELSE Parse(is_looped, category_name, _to_single(lines, is_looped))
        Body(is_looped, lines) ==
            IF Len(lines) = 0 THEN Raise("IndexError")
            ELSE Named(is_looped, lines, _parse_category_name(lines[1]))
        Lines(lines) ==
            IF Len(lines) = 0 THEN Raise("IndexError")
            ELSE IF _is_loop_start(lines[1]) THEN Body(TRUE, Tail(lines))
            ELSE Body(FALSE, lines)
        Stripped(kept) == Lines([i \in 1..Len(kept) |-> Strip(kept[i])])
    IN  Stripped(SelectSeq(SplitLines(text), LAMBDA line : ~_is_empty(line)))

\* "_" + name + "." + key
KeyText(name, key) == <<US>> \o name \o <<".">> \o key

\* CIFCategory._serialize_single(): [exc, lines].
_serialize_single(self) ==
    LET n == Len(self.columns)
        Lines(keys, items) ==
            IF \E i \in 1..n : items[i].exc # "None" THEN
                [exc |-> "ValueError", lines |-> <<>>]
            \* _quote takes len() of the item
            ELSE IF \E i \in 1..n : items[i].type # "str" THEN
                [exc |-> "TypeError", lines |-> <<>>]
            ELSE [exc |-> "None",
                  lines |-> [i \in 1..n |->
                      LJust(keys[i], Max({Len(keys[k]) : k \in 1..n}) + 3)
                          \o _multiline(_quote(items[i].val))]]
    IN  Lines([i \in 1..n |-> KeyText(self.name, self.columns[i].key)],
              [i \in 1..n |-> as_item(self.columns[i].val)])

\* CIFCategory._serialize_looped() for row_count rows: [exc, lines].
_serialize_looped(self, row_count) ==
    LET n == Len(self.columns)
        key_lines == [j \in 1..n |-> KeyText(self.name, self.columns[j].key) \o <<SP>>]
        Lines(column_arrays, column_n_chars) ==
            [exc |-> "None",
             lines |-> <<LoopPrefix>> \o key_lines \o
                 [i \in 1..row_count |->
                     Concat([j \in 1..n |->
                                LJust(column_arrays[j][i], column_n_chars[j])])]]
        Quoted(column_arrays) ==
            Lines(column_arrays,
                  [j \in 1..n |->
                      Max({Len(column_arrays[j][i]) : i \in 1..row_count}) + 1])
        Arrays(texts) ==
            IF \E j \in 1..n : texts[j].exc # "None"
            THEN [exc |-> texts[CHOOSE j \in 1..n : texts[j].exc # "None"].exc,
                  lines |-> <<>>]
            ELSE Quoted([j \in 1..n |->
                            [i \in 1..row_count |->
                                _multiline(_quote(texts[j].array[i]))]])
    IN  Arrays([j \in 1..n |-> as_array(self.columns[j].val, "str", NoValue)])

\* CIFCategory.serialize raising the error of its other tests, ValueError, for
\* columns of different lengths.
CIFCategory_serialize_value_error(self) ==
    LET Raise(e, rc) == [exc |-> e, text |-> <<>>, row_count |-> rc]
        n == Len(self.columns)
        Text(row_count, lines) ==
            IF lines.exc # "None" THEN Raise(lines.exc, row_count)
            ELSE [exc |-> "None",
                  text |-> Join(Append(lines.lines, <<>>), <<NL>>),
                  row_count |-> row_count]
        Rows(row_count) ==
            IF \E j \in 1..n : Len(self.columns[j].val.data.array) # row_count
            THEN Raise("ValueError", row_count)
            ELSE IF row_count = 0 THEN Raise("ValueError", row_count)
            ELSE Text(row_count,
                      IF row_count = 1 THEN _serialize_single(self)
                      ELSE _serialize_looped(self, row_count))
    IN  IF self.name = NoName THEN Raise("SerializationError", self.row_count)
        ELSE IF n = 0 THEN Raise("ValueError", self.row_count)
        ELSE Rows(IF self.row_count = NoRowCount
                  THEN Len(self.columns[1].val.data.array)
                  ELSE self.row_count)

\* CIFCategory.serialize(): [exc, text, row_count], row_count being the
\* cached _row_count the call leaves behind.
CIFCategory_serialize(self) ==
    LET Raise(e, rc) == [exc |-> e, text |-> <<>>, row_count |-> rc]
        n == Len(self.columns)
        Text(row_count, lines) ==
            IF lines.exc # "None" THEN Raise(lines.exc, row_count)
            ELSE [exc |-> "None",
                  text |-> Join(Append(lines.lines, <<>>), <<NL>>),
                  row_count |-> row_count]
        Rows(row_count) ==
            IF \E j \in 1..n : Len(self.columns[j].val.data.array) # row_count
            THEN Raise("SerializationError", row_count)
            ELSE IF row_count = 0 THEN Raise("ValueError", row_count)
            ELSE Text(row_count,
                      IF row_count = 1 THEN _serialize_single(self)
                      ELSE _serialize_looped(self, row_count))
    IN  IF self.name = NoName THEN Raise("SerializationError", self.row_count)
        ELSE IF n = 0 THEN Raise("ValueError", self.row_count)
        ELSE Rows(IF self.row_count = NoRowCount
                  THEN Len(self.columns[1].val.data.array)
                  ELSE self.row_count)

\* CIFCategory.row_count: [exc, ret, row_count], row_count being the cached
\* _row_count the read leaves behind.
CIFCategory_row_count(self) ==
    LET Cached(n) == [exc |-> "None", ret |-> n, row_count |-> n]
    IN  IF self.row_count # NoRowCount THEN Cached(self.row_count)
        \* next() of an iterator over no columns
        ELSE IF Len(self.columns) = 0
        THEN [exc |-> "StopIteration", ret |-> NoRowCount, row_count |-> NoRowCount]
        ELSE Cached(Len(self.columns[1].val.data.array))

\* CIFCategory.__setitem__(key, column) for a column that is a CIFColumn.
CIFCategory_setitem(self, key, column) ==
    [self EXCEPT !.columns = Put(self.columns, key, column)]

\* CIFCategory.__delitem__ without the test for the last column.
CIFCategory_delitem_unguarded(self, key) ==
    IF ~HasKey(self.columns, key) THEN [exc |-> "KeyError", cat |-> self]
    ELSE [exc |-> "None", cat |-> [self EXCEPT !.columns = Del(self.columns, key)]]

\* CIFCategory.__delitem__(key): [exc, cat].
CIFCategory_delitem(self, key) ==
    IF Len(self.columns) = 1 THEN [exc |-> "ValueError", cat |-> self]
    ELSE IF ~HasKey(self.columns, key) THEN [exc |-> "KeyError", cat |-> self]
    ELSE [exc |-> "None", cat |-> [self EXCEPT !.columns = Del(self.columns, key)]]

\* A number of type dtype in sixteenths.
Sixteenths(x, dtype) == IF dtype = "float" THEN x ELSE 16 * x

\* CIFColumn.__eq__
ColumnEq(a, b) ==
    /\ (a.data.dtype = "str") = (b.data.dtype = "str")
    /\ Len(a.data.array) = Len(b.data.array)
    /\ \A i \in 1..Len(a.data.array) :
          IF a.data.dtype = "str" THEN a.data.array[i] = b.data.array[i]
          ELSE Sixteenths(a.data.array[i], a.data.dtype)
                 = Sixteenths(b.data.array[i], b.data.dtype)
    /\ IsNone(a.mask) = IsNone(b.mask)
    /\ ~IsNone(a.mask) => a.mask.array = b.mask.array

\* CIFCategory.__eq__
CategoryEq(a, b) ==
    /\ {a.columns[i].key : i \in 1..Len(a.columns)}
         = {b.columns[i].key : i \in 1..Len(b.columns)}
    /\ \A i \in 1..Len(a.columns) :
          ColumnEq(a.columns[i].val, Get(b.columns, a.columns[i].key))

(***************************************************************************)
(* CIFBlock: a dict of category slots.  A slot [kind, text, cat] holds the *)
(* text of a category that was not parsed yet (kind "str") or its          *)
(* CIFCategory (kind "cat").                                               *)
(***************************************************************************)
NoCategory == CIFCategory(<<>>, NoName)

RawCategory(text) == [kind |-> "str", text |-> text, cat |-> NoCategory]

ParsedCategory(c) == [kind |-> "cat", text |-> <<>>, cat |-> c]

\* "atom_site"
AtomSite == <<"a", "t", "o", "m", US, "s", "i", "t", "e">>

\* The loop of CIFBlock.deserialize from line i (1-based) on:
\* [exc, names, starts], the starts being 0-based line numbers.
RECURSIVE BlockScan(_, _, _, _, _)
BlockScan(lines, i, current_category_name, category_names, category_starts) ==
    IF i > Len(lines)
    THEN [exc |-> "None", names |-> category_names, starts |-> category_starts]
    ELSE IF _is_empty(lines[i])
    THEN BlockScan(lines, i + 1, current_category_name, category_names, category_starts)
    ELSE LET is_loop_in_line == _is_loop_start(lines[i])
             category_name_in_line == _parse_category_name(lines[i])
             Track(name) ==
                 BlockScan(lines, i + 1, name,
                           Append(category_names, name), Append(category_starts, i - 1))
         IN  IF is_loop_in_line
             \* lines[i + 1] past the last line, or [0] of an empty line
             THEN IF i + 1 > Len(lines) \/ Len(lines[i + 1]) = 0
                  THEN [exc |-> "IndexError", names |-> <<>>, starts |-> <<>>]
                  ELSE Track(_parse_category_name(lines[i + 1]))
             ELSE IF category_name_in_line # current_category_name
                     /\ category_name_in_line # NoName
             THEN Track(category_name_in_line)
             ELSE BlockScan(lines, i + 1, current_category_name,
                            category_names, category_starts)

\* CIFBlock.deserialize(text): [exc, categories].
CIFBlock_deserialize(text) ==
    LET Slots(d) ==
            [i \in 1..Len(d) |-> [key |-> d[i].key, val |-> RawCategory(d[i].val)]]
        Scanned(lines, scan) ==
            IF scan.exc # "None" THEN [exc |-> scan.exc, categories |-> <<>>]
            ELSE [exc |-> "None",
                  categories |->
                      Slots(_create_element_dict(lines, scan.names, scan.starts))]
        Lines(lines) == Scanned(lines, BlockScan(lines, 1, NoName, <<>>, <<>>))
    IN  Lines(SplitLines(text))

\* CIFBlock.serialize() from slot i on, text being what is written so far:
\* [exc, text, categories], categories with the names and row counts that
\* serializing the parsed slots leaves behind.
RECURSIVE BlockSerializeFrom(_, _, _)
BlockSerializeFrom(categories, i, text) ==
    LET Stored(r, stored) ==
            IF r.exc # "None"
            THEN [exc |-> "SerializationError", text |-> <<>>, categories |-> stored]
            ELSE BlockSerializeFrom(stored, i + 1, text \o r.text \o <<"#", NL>>)
        Serialized(named, r) ==
            Stored(r, [categories EXCEPT
                          ![i].val.cat = [named EXCEPT !.row_count = r.row_count]])
        Named(named) == Serialized(named, CIFCategory_serialize(named))
    IN  IF i > Len(categories)
        THEN [exc |-> "None", text |-> text, categories |-> categories]
        ELSE IF categories[i].val.kind = "str"
        THEN BlockSerializeFrom(categories, i + 1, text \o categories[i].val.text)
        ELSE Named([categories[i].val.cat EXCEPT !.name = categories[i].key])

CIFBlock_serialize(categories) == BlockSerializeFrom(categories, 1, <<>>)

\* CIFBlock.__getitem__ that forgets the category it parsed.
CIFBlock_getitem_uncached(categories, key) ==
    LET Raise(e) == [exc |-> e, categories |-> categories,
                     ret |-> NoCategory, parsed |-> FALSE]
        Deserialized(r) ==
            IF r.exc # "None" THEN Raise("DeserializationError")
            ELSE [exc |-> "None", categories |-> categories,
                  ret |-> r.cat, parsed |-> TRUE]
        Slot(category) ==
            IF category.kind # "str"
            THEN [exc |-> "None", categories |-> categories,
                  ret |-> category.cat, parsed |-> FALSE]
            ELSE Deserialized(CIFCategory_deserialize(category.text, key # AtomSite))
    IN  IF ~HasKey(categories, key) THEN Raise("KeyError")
        ELSE Slot(Get(categories, key))

\* CIFBlock.__getitem__ that puts an empty category in the slot before it
\* parses the text.
CIFBlock_getitem_stored_first(categories, key) ==
    LET Raise(e) == [exc |-> e, categories |-> categories,
                     ret |-> NoCategory, parsed |-> FALSE]
        Deserialized(r) ==
            IF r.exc # "None"
            THEN [exc |-> "DeserializationError",
                  categories |-> Put(categories, key, ParsedCategory(NoCategory)),
                  ret |-> NoCategory, parsed |-> FALSE]
            ELSE [exc |-> "None",
                  categories |-> Put(categories, key, ParsedCategory(r.cat)),
                  ret |-> r.cat, parsed |-> TRUE]
        Slot(category) ==
            IF category.kind # "str"
            THEN [exc |-> "None", categories |-> categories,
                  ret |-> category.cat, parsed |-> FALSE]
            ELSE Deserialized(CIFCategory_deserialize(category.text, key # AtomSite))
    IN  IF ~HasKey(categories, key) THEN Raise("KeyError")
        ELSE Slot(Get(categories, key))

\* CIFBlock.__getitem__(key): [exc, categories, ret, parsed], parsed telling
\* whether the call deserialized the text of the slot.
CIFBlock_getitem(categories, key) ==
    LET Raise(e) == [exc |-> e, categories |-> categories,
                     ret |-> NoCategory, parsed |-> FALSE]
        Deserialized(r) ==
            IF r.exc # "None" THEN Raise("DeserializationError")
            ELSE [exc |-> "None",
                  categories |-> Put(categories, key, ParsedCategory(r.cat)),
                  ret |-> r.cat, parsed |-> TRUE]
        Slot(category) ==
            IF category.kind # "str"
            THEN [exc |-> "None", categories |-> categories,
                  ret |-> category.cat, parsed |-> FALSE]
            ELSE Deserialized(CIFCategory_deserialize(category.text, key # AtomSite))
    IN  IF ~HasKey(categories, key) THEN Raise("KeyError")
        ELSE Slot(Get(categories, key))

\* A value handed to a container: its type and, for a CIFCategory, the
\* category.
Value(type, c) == [type |-> type, cat |-> c]

\* CIFBlock.__setitem__ that leaves the name of the category as it is.
CIFBlock_setitem_unnamed(categories, key, category) ==
    IF category.type # "CIFCategory"
    THEN [exc |-> "TypeError", categories |-> categories]
    ELSE [exc |-> "None",
          categories |-> Put(categories, key, ParsedCategory(category.cat))]

\* CIFBlock.__setitem__(key, category): [exc, categories].
CIFBlock_setitem(categories, key, category) ==
    IF category.type # "CIFCategory"
    THEN [exc |-> "TypeError", categories |-> categories]
    ELSE [exc |-> "None",
          categories |-> Put(categories, key,
                             ParsedCategory([category.cat EXCEPT !.name = key]))]

\* CIFBlock(categories) for a dict of CIFCategory objects.
CIFBlock(categories) ==
    [i \in 1..Len(categories) |->
        [key |-> categories[i].key, val |-> ParsedCategory(categories[i].val)]]

(***************************************************************************)
(* CIFFile: a dict of block slots.  A slot [kind, text, categories] holds  *)
(* the text of a block that was not parsed yet (kind "str") or the         *)
(* categories of its CIFBlock (kind "block").                              *)
(***************************************************************************)
NoFile == <<>>

RawBlock(text) == [kind |-> "str", text |-> text, categories |-> <<>>]

ParsedBlock(categories) == [kind |-> "block", text |-> <<>>, categories |-> categories]

\* The loop of CIFFile.deserialize from line i (1-based) on: [names, starts].
RECURSIVE FileScan(_, _, _, _)
FileScan(lines, i, block_names, block_starts) ==
    IF i > Len(lines) THEN [names |-> block_names, starts |-> block_starts]
    ELSE IF ~_is_empty(lines[i]) /\ _parse_data_block_name(lines[i]) # NoName
    THEN FileScan(lines, i + 1,
                  Append(block_names, _parse_data_block_name(lines[i])),
                  Append(block_starts, i - 1))
    ELSE FileScan(lines, i + 1, block_names, block_starts)

\* CIFFile.deserialize(text): the dict of blocks.
CIFFile_deserialize(text) ==
    LET Slots(d) ==
            [i \in 1..Len(d) |-> [key |-> d[i].key, val |-> RawBlock(d[i].val)]]
        Scanned(lines, scan) ==
            Slots(_create_element_dict(lines, scan.names, scan.starts))
        Lines(lines) == Scanned(lines, FileScan(lines, 1, <<>>, <<>>))
    IN  Lines(SplitLines(text))

\* CIFFile.serialize() from slot i on: [exc, text, blocks].
RECURSIVE FileSerializeFrom(_, _, _)
FileSerializeFrom(blocks, i, text) ==
    LET header == DataPrefix \o blocks[i].key \o <<NL, "#", NL>>
        Serialized(r) ==
            IF r.exc # "None"
            THEN [exc |-> "SerializationError", text |-> <<>>,
                  blocks |-> [blocks EXCEPT ![i].val.categories = r.categories]]
            ELSE FileSerializeFrom([blocks EXCEPT ![i].val.categories = r.categories],
                                   i + 1, text \o header \o r.text)
    IN  IF i > Len(blocks) THEN [exc |-> "None", text |-> text, blocks |-> blocks]
        ELSE IF blocks[i].val.kind = "str"
        THEN FileSerializeFrom(blocks, i + 1, text \o header \o blocks[i].val.text)
        ELSE Serialized(CIFBlock_serialize(blocks[i].val.categories))

CIFFile_serialize(blocks) == FileSerializeFrom(blocks, 1, <<>>)

\* CIFFile.__getitem__(key): [exc, blocks, ret, parsed].
CIFFile_getitem(blocks, key) ==
    LET Raise(e) == [exc |-> e, blocks |-> blocks, ret |-> <<>>, parsed |-> FALSE]
        Deserialized(r) ==
            IF r.exc # "None" THEN Raise("DeserializationError")
            ELSE [exc |-> "None",
                  blocks |-> Put(blocks, key, ParsedBlock(r.categories)),
                  ret |-> r.categories, parsed |-> TRUE]
        Slot(block) ==
            IF block.kind # "str"
            THEN [exc |-> "None", blocks |-> blocks,
                  ret |-> block.categories, parsed |-> FALSE]
            ELSE Deserialized(CIFBlock_deserialize(block.text))
    IN  IF ~HasKey(blocks, key) THEN Raise("KeyError")
        ELSE Slot(Get(blocks, key))

\* CIFFile(blocks) for a dict of CIFBlock objects.
CIFFile(blocks) ==
    [i \in 1..Len(blocks) |->
        [key |-> blocks[i].key, val |-> ParsedBlock(blocks[i].val)]]

(***************************************************************************)
(* Objects by identity.  A dict holds references: one CIFCategory object   *)
(* can be the value of several keys of one or of several blocks, and what  *)
(* a call does to the object through one key is seen through all of them.  *)
(* A heap is the sequence of the objects made so far, objects[id] being    *)
(* the object with identity id; a slot [kind, text, id] holds the text of  *)
(* an element that was not parsed yet (kind "str") or the reference to an  *)
(* object (kind "obj").                                                    *)
(***************************************************************************)
NoObject == 0

RawSlot(text) == [kind |-> "str", text |-> text, id |-> NoObject]

ObjectSlot(id) == [kind |-> "obj", text |-> <<>>, id |-> id]

\* CIFBlock({...}) for a dict of references to CIFCategory objects.
CIFBlock_shared(categories) ==
    [i \in 1..Len(categories) |->
        [key |-> categories[i].key, val |-> ObjectSlot(categories[i].val)]]

\* The dict that deserialize of a container builds, every slot holding the
\* text of an element.
Unparsed(elements) ==
    [i \in 1..Len(elements) |->
        [key |-> elements[i].key, val |-> RawSlot(elements[i].val.text)]]

\* CIFBlock.serialize() from slot i on for a block whose slots hold
\* references, text being what is written so far: [exc, text, heap], heap
\* with the names and row counts that serializing leaves in the objects.
RECURSIVE CIFBlock_serialize_shared(_, _, _, _)
CIFBlock_serialize_shared(categories, objects, i, text) ==
    LET Stored(r, stored) ==
            IF r.exc # "None"
            THEN [exc |-> "SerializationError", text |-> <<>>, heap |-> stored]
            ELSE CIFBlock_serialize_shared(categories, stored, i + 1,
                                           text \o r.text \o <<"#", NL>>)
        Serialized(id, named, r) ==
            Stored(r, [objects EXCEPT ![id] = [named EXCEPT !.row_count = r.row_count]])
        Named(id, named) == Serialized(id, named, CIFCategory_serialize(named))
    IN  IF i > Len(categories)
        THEN [exc |-> "None", text |-> text, heap |-> objects]
        ELSE IF categories[i].val.kind = "str"
        THEN CIFBlock_serialize_shared(categories, objects, i + 1,
                                       text \o categories[i].val.text)
        ELSE Named(categories[i].val.id,
                   [objects[categories[i].val.id] EXCEPT !.name = categories[i].key])

\* CIFBlock.__getitem__(key) for a block whose slots hold references:
\* [exc, categories, heap, ret], ret being the identity of the category.
CIFBlock_getitem_shared(categories, objects, key) ==
    LET Raise(e) == [exc |-> e, categories |-> categories, heap |-> objects,
                     ret |-> NoObject]
        Deserialized(r) ==
            IF r.exc # "None" THEN Raise("DeserializationError")
            ELSE [exc |-> "None",
                  categories |-> Put(categories, key, ObjectSlot(Len(objects) + 1)),
                  heap |-> Append(objects, r.cat),
                  ret |-> Len(objects) + 1]
        Slot(category) ==
            IF category.kind # "str"
            THEN [exc |-> "None", categories |-> categories, heap |-> objects,
                  ret |-> category.id]
            ELSE Deserialized(CIFCategory_deserialize(category.text, key # AtomSite))
    IN  IF ~HasKey(categories, key) THEN Raise("KeyError")
        ELSE Slot(Get(categories, key))

(***************************************************************************)
(* Inputs of the calls on a column.                                        *)
(***************************************************************************)
TextValues == {<<"a">>, <<".">>, <<"?">>, <<"1">>, <<>>}
FloatValues == {1, 16}     \* 0.0625 and 1.0
IntValues == {12}

MaskArgs ==
    {None} \cup
    {[dtype |-> "uint8", array |-> a] :
        a \in SeqFrom1({PRESENT, INAPPLICABLE, MISSING}, MaxLen)}

TextMaskedValues == {NoValue, [given |-> TRUE, val |-> <<"x", "y">>]}
IntMaskedValues == {[given |-> FALSE, val |-> 0], [given |-> TRUE, val |-> 7]}

NoCall == [op |-> "none", arg |-> <<>>, ret |-> <<>>]

NoArgs == [data |-> None, mask |-> None]

(***************************************************************************)
(* The calls on a column: one column object per behaviour.                 *)
(***************************************************************************)
\* col = CIFColumn(data, mask); an exception leaves no object behind.
Construct(data, mask) ==
    LET c == CIFColumn(data, mask)
    IN  /\ out' = [op |-> "__init__",
                   arg |-> [data |-> data, mask |-> mask],
                   ret |-> [exc |-> c.exc]]
        /\ IF c.exc = "None"
           THEN /\ col' = [data |-> c.data, mask |-> c.mask]
                /\ args' = [data |-> data, mask |-> mask]
           ELSE UNCHANGED <<col, args>>
        /\ UNCHANGED <<quoteVars, catVars, fileVars, objVars>>

NewTextColumn ==
    /\ col = NoColumn /\ out.op = "none"
    /\ \E mask \in MaskArgs : \E a \in SeqFrom1(TextValues, MaxLen) :
        Construct([cifdata |-> FALSE, dtype |-> "str", array |-> a], mask)

NewFloatColumn ==
    /\ col = NoColumn /\ out.op = "none"
    /\ \E mask \in MaskArgs : \E a \in SeqFrom1(FloatValues, MaxLen) :
        Construct([cifdata |-> TRUE, dtype |-> "float", array |-> a], mask)

NewIntColumn ==
    /\ col = NoColumn /\ out.op = "none"
    /\ \E mask \in MaskArgs : \E a \in SeqFrom1(IntValues, MaxLen) :
        Construct([cifdata |-> TRUE, dtype |-> "int", array |-> a], mask)

AsItem ==
    /\ col # NoColumn
    /\ out' = [op |-> "as_item", arg |-> <<>>, ret |-> as_item(col)]
    /\ UNCHANGED <<col, args, quoteVars, catVars, fileVars, objVars>>

AsArray(dtype, masked_value) ==
    /\ col # NoColumn
    /\ out' = [op |-> "as_array",
               arg |-> [dtype |-> dtype, masked_value |-> masked_value],
               ret |-> as_array(col, dtype, masked_value)]
    /\ UNCHANGED <<col, args, quoteVars, catVars, fileVars, objVars>>

AsTextArray == \E masked_value \in TextMaskedValues : AsArray("str", masked_value)

AsIntArray == \E masked_value \in IntMaskedValues : AsArray("int", masked_value)

\* No call made yet on or for a category.
NoCatCall ==
    [op |-> "none", exc |-> "None", text |-> <<>>, ret |-> NoCategory,
     arg |-> [names |-> <<>>, tokens |-> <<>>, breaks |-> <<>>,
             expect_whitespace |-> TRUE]]

\* No call made yet on the file.
NoFileCall ==
    [op |-> "none", path |-> <<>>, exc |-> "None", text |-> <<>>,
     block |-> <<>>, cat |-> NoCategory, parsed |-> FALSE]

Init ==
    /\ col = NoColumn
    /\ args = NoArgs
    /\ out = NoCall
    /\ qin = <<>>
    /\ qout = <<>>
    /\ cat = NoCategory
    /\ cout = NoCatCall
    /\ file = NoFile
    /\ forig = NoFile
    /\ ftext = <<>>
    /\ fout = NoFileCall
    /\ parses = <<>>
    /\ heap = <<>>
    /\ threads = <<>>

NextColumn ==
    \/ NewTextColumn
    \/ NewFloatColumn
    \/ NewIntColumn
    \/ AsItem
    \/ AsTextArray
    \/ AsIntArray

SpecColumn == Init /\ [][NextColumn]_vars

(***************************************************************************)
(* The calls of _quote: one call per behaviour.                            *)
(***************************************************************************)
QuoteChars == {"a", US, SQ, DQ, SP, TAB, NL}

Quote(value) ==
    /\ qin' = value
    /\ qout' = _quote(value)
    /\ UNCHANGED <<colVars, catVars, fileVars, objVars>>

NextQuote ==
    /\ qout = <<>>
    /\ \E value \in SeqUpTo(QuoteChars, MaxQuoteLen) : Quote(value)

SpecQuote == Init /\ [][NextQuote]_vars

(***************************************************************************)
(* The calls on a category built by the program: one category per          *)
(* behaviour, serialized and read back.                                    *)
(***************************************************************************)
\* The column names of the categories under test, in declaration order.
ColumnNames == << <<"x">>, <<"y">> >>

\* The name of the category under test.
CategoryName == <<"c">>

\* The values of the columns of a category under test: a, b c, ?, 'a' and
\* a" '.
CategoryValues ==
    {<<"a">>, <<"b", SP, "c">>, <<"?">>, <<SQ, "a", SQ>>, <<"a", DQ, SP, SQ>>}

\* CIFCategory(columns, name) with the first k column names, values[j] being
\* the array-like of column j.
NewCategoryOf(k, values, name) ==
    CIFCategory([j \in 1..k |-> [key |-> ColumnNames[j], val |-> TextColumn(values[j])]],
                name)

\* cat = CIFCategory({...}, name)
NewCategory ==
    /\ cat = NoCategory /\ cout.op = "none"
    /\ \E k \in 1..Len(ColumnNames) : \E n \in 1..MaxRows :
       \E values \in [1..k -> [1..n -> CategoryValues]] :
          /\ cat' = NewCategoryOf(k, values, CategoryName)
          /\ cout' = [NoCatCall EXCEPT !.op = "__init__"]
    /\ UNCHANGED <<colVars, quoteVars, fileVars, objVars>>

\* text = cat.serialize()
SerializeCategory ==
    /\ cat # NoCategory /\ cout.op = "__init__"
    /\ LET Returned(r) ==
               /\ cat' = [cat EXCEPT !.row_count = r.row_count]
               /\ cout' = [NoCatCall EXCEPT !.op = "serialize", !.exc = r.exc,
                                            !.text = r.text]
       IN  Returned(CIFCategory_serialize(cat))
    /\ UNCHANGED <<colVars, quoteVars, fileVars, objVars>>

\* CIFCategory.deserialize(text) of the text cat.serialize() returned
DeserializeCategory ==
    /\ cout.op = "serialize" /\ cout.exc = "None"
    /\ LET Returned(r) ==
               cout' = [cout EXCEPT !.op = "deserialize", !.exc = r.exc, !.ret = r.cat]
       IN  Returned(CIFCategory_deserialize(cout.text, TRUE))
    /\ UNCHANGED <<cat, colVars, quoteVars, fileVars, objVars>>

NextCategory ==
    \/ NewCategory
    \/ SerializeCategory
    \/ DeserializeCategory

SpecCategory == Init /\ [][NextCategory]_vars

(***************************************************************************)
(* The calls that change a category: one category per behaviour, built     *)
(* with any name and columns, then changed by column assignments and       *)
(* deletions, with reads of row_count and serialize calls in between.      *)
(***************************************************************************)
\* The column names of a category that is changed, in declaration order.
MutableNames == << <<"x">>, <<"y">>, <<"z">> >>

\* An array-like of n text values.
TextRows(n) == [i \in 1..n |-> <<"a">>]

\* The outcome of a call on the category that is changed: the call, its key,
\* what it raised and returned, and the category before the call.
MutCall(op, key, exc, text, rows, before) ==
    [op |-> op, key |-> key, exc |-> exc, text |-> text, rows |-> rows,
     before |-> before]

\* cat = CIFCategory({...}, name) with no, one or two columns of any lengths,
\* with and without a name
NewMutable ==
    /\ cout.op = "none"
    /\ \E k \in 0..2 : \E lengths \in [1..k -> 1..MaxRows] :
       \E name \in {NoName, CategoryName} :
          /\ cat' = CIFCategory([j \in 1..k |->
                                    [key |-> MutableNames[j],
                                     val |-> TextColumn(TextRows(lengths[j]))]],
                                name)
          /\ cout' = MutCall("__init__", <<>>, "None", <<>>, NoRowCount, NoCategory)
    /\ UNCHANGED <<colVars, quoteVars, fileVars, objVars>>

\* cat[key] = column
SetColumn ==
    /\ cout.op # "none"
    /\ \E j \in 1..Len(MutableNames) : \E n \in 1..MaxRows :
          /\ cat' = CIFCategory_setitem(cat, MutableNames[j], TextColumn(TextRows(n)))
          /\ cout' = MutCall("__setitem__", MutableNames[j], "None", <<>>,
                             NoRowCount, cat)
    /\ UNCHANGED <<colVars, quoteVars, fileVars, objVars>>

\* del cat[key]
DelColumn ==
    /\ cout.op # "none"
    /\ \E j \in 1..Len(MutableNames) :
          LET Returned(r) ==
                  /\ cat' = r.cat
                  /\ cout' = MutCall("__delitem__", MutableNames[j], r.exc, <<>>,
                                     NoRowCount, cat)
          IN  Returned(CIFCategory_delitem(cat, MutableNames[j]))
    /\ UNCHANGED <<colVars, quoteVars, fileVars, objVars>>

\* cat.row_count
ReadRowCount ==
    /\ cout.op # "none"
    /\ LET Returned(r) ==
               /\ cat' = [cat EXCEPT !.row_count = r.row_count]
               /\ cout' = MutCall("row_count", <<>>, r.exc, <<>>, r.ret, cat)
       IN  Returned(CIFCategory_row_count(cat))
    /\ UNCHANGED <<colVars, quoteVars, fileVars, objVars>>

\* cat.serialize()
SerializeMutable ==
    /\ cout.op # "none"
    /\ LET Returned(r) ==
               /\ cat' = [cat EXCEPT !.row_count = r.row_count]
               /\ cout' = MutCall("serialize", <<>>, r.exc, r.text, NoRowCount, cat)
       IN  Returned(CIFCategory_serialize(cat))
    /\ UNCHANGED <<colVars, quoteVars, fileVars, objVars>>

NextMutate ==
    \/ NewMutable
    \/ SetColumn
    \/ DelColumn
    \/ ReadRowCount
    \/ SerializeMutable

SpecMutate == Init /\ [][NextMutate]_vars

(***************************************************************************)
(* The calls on a category with values that contain line breaks: one       *)
(* category per behaviour, serialized and read back.                       *)
(***************************************************************************)
\* The values with line breaks: two lines; a blank line between two lines;
\* a line that starts with a space; and a line break at the end.
MultilineValues ==
    {<<"a", NL, "b">>, <<"a", NL, NL, "b">>, <<"a", NL, SP, "b">>, <<"a", NL>>}

\* cat = CIFCategory({...}, name) with one or two columns of one row (the
\* single-row form) or more (the looped form), of values with line breaks
\* and a value without
NewMultiline ==
    /\ cat = NoCategory /\ cout.op = "none"
    /\ \E k \in 1..Len(ColumnNames) : \E n \in 1..MaxRows :
       \E values \in [1..k -> [1..n -> MultilineValues \cup {<<"c">>}]] :
          /\ \E j \in 1..k : \E i \in 1..n : Contains(values[j][i], NL)
          /\ cat' = NewCategoryOf(k, values, CategoryName)
          /\ cout' = [NoCatCall EXCEPT !.op = "__init__"]
    /\ UNCHANGED <<colVars, quoteVars, fileVars, objVars>>

NextMultiline ==
    \/ NewMultiline
    \/ SerializeCategory
    \/ DeserializeCategory

SpecMultiline == Init /\ [][NextMultiline]_vars

(***************************************************************************)
(* CIFCategory.deserialize of the text of a looped category: one call per  *)
(* behaviour.                                                              *)
(***************************************************************************)
\* The names of a looped category under test, in declaration order.
LoopedNames == << <<"x">>, <<"y">>, <<"z">> >>

\* The data tokens of a looped category under test, each with the value it
\* stands for: a and 'b'.
Tokens ==
    {[raw |-> <<"a">>, value |-> <<"a">>],
     [raw |-> <<SQ, "b", SQ>>, value |-> <<"b">>]}

\* The text of a looped category: loop_, one line per name, and the tokens,
\* token j being followed by breaks[j] (a space or a line break) and the last
\* one by a line break.
LoopedText(names, tokens, breaks) ==
    LoopPrefix \o <<NL>>
    \o Concat([i \in 1..Len(names) |-> KeyText(CategoryName, names[i]) \o <<NL>>])
    \o Concat([j \in 1..Len(tokens) |->
                 tokens[j].raw \o <<IF j < Len(tokens) THEN breaks[j] ELSE NL>>])

\* CIFCategory.deserialize(text, expect_whitespace)
DeserializeLooped ==
    /\ cout.op = "none"
    /\ \E k \in 1..Len(LoopedNames) : \E n \in 1..MaxTokens :
        /\ n % k = 0
        /\ \E tokens \in [1..n -> Tokens] : \E breaks \in [1..(n - 1) -> {SP, NL}] :
           \E expect_whitespace \in BOOLEAN :
            LET names == SubSeq(LoopedNames, 1, k)
                Returned(text, r) ==
                    cout' = [op |-> "deserialize", exc |-> r.exc, text |-> text,
                             ret |-> r.cat,
                             arg |-> [names |-> names, tokens |-> tokens,
                                      breaks |-> breaks,
                                      expect_whitespace |-> expect_whitespace]]
                Call(text) ==
                    Returned(text, CIFCategory_deserialize(text, expect_whitespace))
            IN  Call(LoopedText(names, tokens, breaks))
    /\ UNCHANGED <<cat, colVars, quoteVars, fileVars, objVars>>

NextLooped == DeserializeLooped

SpecLooped == Init /\ [][NextLooped]_vars

(***************************************************************************)
(* CIFCategory.deserialize of texts whose first content line may lack a    *)
(* category name: one call per behaviour.                                  *)
(***************************************************************************)
\* The first content lines: a continuation line, a value, a quoted name, a
\* name without a column (_c 1, _ and _a 1.5) and well-formed fields with
\* and without a value.
FirstLines ==
    {<<";", "a">>,
     <<"x", SP, "1">>,
     <<SQ, US, "c", ".", "x", SQ, SP, "1">>,
     <<US, "c", SP, "1">>,
     <<US>>,
     <<US, "a", SP, "1", ".", "5">>,
     <<US, "c", ".", "x", SP, "1">>,
     <<US, "c", ".", "x">>}

\* The lines that may follow: none, a value, the end of a multiline value,
\* another field and a comment.
MoreLines ==
    {<<>>,
     << <<"b">> >>,
     << <<";">> >>,
     << <<US, "c", ".", "y", SP, "2">> >>,
     << <<"#">>, <<"1">> >>}

\* The text of the lines, each with its line break.
TextOf(lines) == Concat([i \in 1..Len(lines) |-> lines[i] \o <<NL>>])

\* The outcome of a call of CIFCategory.deserialize: the text, whether it
\* has a loop marker line, its first content line, and what was raised and
\* returned.
ParseCall(text, looped, first, r) ==
    [op |-> "deserialize", text |-> text, looped |-> looped, first |-> first,
     exc |-> r.exc, ret |-> r.cat]

\* CIFCategory.deserialize(text, expect_whitespace)
ParseCategory ==
    /\ cout.op = "none"
    /\ \E looped \in BOOLEAN : \E commented \in BOOLEAN :
       \E first \in FirstLines : \E more \in MoreLines :
       \E expect_whitespace \in BOOLEAN :
          LET Call(text) ==
                  cout' = ParseCall(text, looped, first,
                                    CIFCategory_deserialize(text, expect_whitespace))
          IN  Call(TextOf((IF commented THEN << <<"#">> >> ELSE <<>>)
                            \o (IF looped THEN <<LoopPrefix>> ELSE <<>>)
                            \o <<first>> \o more))
    /\ UNCHANGED <<cat, colVars, quoteVars, fileVars, objVars>>

NextParse == ParseCategory

SpecParse == Init /\ [][NextParse]_vars

(***************************************************************************)
(* The calls on a file and on the blocks it hands out.                     *)
(***************************************************************************)
\* The names of the blocks of a file under test, in order: B1 and B2.
BlockNames == << <<"B", "1">>, <<"B", "2">> >>

\* The names of the categories of a block under test.
CategoryNames == << <<"a">>, <<"b">> >>

\* data_b
DataB == DataPrefix \o <<"b">>

\* The blocks a program builds: one category of one row; a category whose
\* value needs quotes and a category of two rows; and a category of two rows
\* of which the first value reads like the start of a block.
ProgramBlocks ==
    LET Category(values) == NewCategoryOf(1, <<values>>, NoName)
        Block(cats) ==
            CIFBlock([j \in 1..Len(cats) |-> [key |-> CategoryNames[j], val |-> cats[j]]])
    IN  {Block(<<Category(<< <<"a">> >>)>>),
         Block(<<Category(<< <<"b", SP, "c">> >>), Category(<< <<"a">>, <<"a">> >>)>>),
         Block(<<Category(<<DataB, <<"a">>>>)>>)}

\* The files a program builds: blocks with the first n block names.
ProgramFiles ==
    UNION {{CIFFile([i \in 1..n |-> [key |-> BlockNames[i], val |-> blocks[i]]]) :
              blocks \in [1..n -> ProgramBlocks]} : n \in 1..Len(BlockNames)}

\* The text of the categories of a block as read from a file: two
\* categories, the second one looped and named atom_site; a category whose
\* only field has no value, before a well-formed one; and loop_ with nothing
\* after it.
BlockBodies ==
    LET a == <<US, "a", ".", "x", SP, SP, SP, "1", NL, "#", NL>>
        s == LoopPrefix \o <<NL, US>> \o AtomSite
               \o <<".", "i", SP, NL, "1", SP, NL, SQ, "2", SQ, SP, NL, "#", NL>>
        c == <<US, "c", ".", "z", NL, "#", NL>>
    IN  {a \o s, c \o a, LoopPrefix}

\* The texts read: blocks with the first n block names, each with its header
\* line, a comment line and one of the bodies.
FileTexts ==
    UNION {{Concat([i \in 1..n |->
                DataPrefix \o BlockNames[i] \o <<NL, "#", NL>> \o bodies[i]]) :
              bodies \in [1..n -> BlockBodies]} : n \in 1..Len(BlockNames)}

\* parses with one more parse of the slot at path.
Parsed(path) ==
    Put(parses, path, IF HasKey(parses, path) THEN Get(parses, path) + 1 ELSE 1)

\* file = CIFFile({...})
NewFile ==
    /\ file = NoFile
    /\ \E f \in ProgramFiles :
        /\ file' = f
        /\ fout' = [NoFileCall EXCEPT !.op = "__init__"]
    /\ UNCHANGED <<forig, ftext, parses, colVars, quoteVars, catVars, objVars>>

\* file = CIFFile.deserialize(text)
ReadFile ==
    /\ file = NoFile
    /\ \E text \in FileTexts :
        /\ file' = CIFFile_deserialize(text)
        /\ ftext' = text
        /\ fout' = [NoFileCall EXCEPT !.op = "deserialize"]
    /\ UNCHANGED <<forig, parses, colVars, quoteVars, catVars, objVars>>

\* text = file.serialize()
SerializeFile ==
    /\ file # NoFile /\ fout.op # "serialize"
    /\ LET Returned(r) ==
               /\ file' = r.blocks
               /\ fout' = [NoFileCall EXCEPT !.op = "serialize", !.exc = r.exc,
                                             !.text = r.text]
       IN  Returned(CIFFile_serialize(file))
    /\ UNCHANGED <<forig, ftext, parses, colVars, quoteVars, catVars, objVars>>

\* file = CIFFile.deserialize(text) of the text file.serialize() returned, for
\* a file the program built
DeserializeFile ==
    /\ forig = NoFile /\ ftext = <<>>
    /\ fout.op = "serialize" /\ fout.exc = "None"
    /\ forig' = file
    /\ ftext' = fout.text
    /\ file' = CIFFile_deserialize(fout.text)
    /\ fout' = [NoFileCall EXCEPT !.op = "deserialize"]
    /\ UNCHANGED <<parses, colVars, quoteVars, catVars, objVars>>

\* file[key]
GetBlock ==
    /\ ftext # <<>>
    /\ \E i \in 1..Len(file) :
        LET Returned(key, r) ==
                /\ file' = r.blocks
                /\ fout' = [NoFileCall EXCEPT !.op = "get", !.path = <<key>>,
                               !.exc = r.exc, !.block = r.ret, !.parsed = r.parsed]
                /\ parses' = IF r.parsed THEN Parsed(<<key>>) ELSE parses
        IN  Returned(file[i].key, CIFFile_getitem(file, file[i].key))
    /\ UNCHANGED <<forig, ftext, colVars, quoteVars, catVars, objVars>>

\* block[key] for a block = file[bkey] obtained before
GetCategory ==
    /\ ftext # <<>>
    /\ \E i \in 1..Len(file) :
        /\ file[i].val.kind = "block"
        /\ \E j \in 1..Len(file[i].val.categories) :
            LET Returned(path, r) ==
                    /\ file' = [file EXCEPT ![i].val.categories = r.categories]
                    /\ fout' = [NoFileCall EXCEPT !.op = "get", !.path = path,
                                   !.exc = r.exc, !.cat = r.ret, !.parsed = r.parsed]
                    /\ parses' = IF r.parsed THEN Parsed(path) ELSE parses
                Call(categories, key) ==
                    Returned(<<file[i].key, key>>, CIFBlock_getitem(categories, key))
            IN  Call(file[i].val.categories, file[i].val.categories[j].key)
    /\ UNCHANGED <<forig, ftext, colVars, quoteVars, catVars, objVars>>

\* A file built by the program, written and read back.
NextFile ==
    \/ NewFile
    \/ SerializeFile
    \/ DeserializeFile
    \/ GetBlock
    \/ GetCategory

SpecFile == Init /\ [][NextFile]_vars

\* A file read from text and accessed lazily.
NextLazy ==
    \/ ReadFile
    \/ GetBlock
    \/ GetCategory
    \/ SerializeFile

SpecLazy == Init /\ [][NextLazy]_vars

(***************************************************************************)
(* Assignments to the keys of a block: one block per behaviour, built by   *)
(* the program or read from text, kept as the only block of the file.      *)
(***************************************************************************)
\* The keys assigned to: the category names of the blocks under test and a
\* new one.
AssignKeys == CategoryNames \o << <<"n">> >>

\* The values assigned: categories without a name, with another name and
\* with a cached row count, and objects of other types.
AssignValues ==
    {Value("CIFCategory", NewCategoryOf(1, << << <<"a">> >> >>, NoName)),
     Value("CIFCategory", NewCategoryOf(1, << << <<"a">> >> >>, <<"q">>)),
     Value("CIFCategory",
           [NewCategoryOf(2, << << <<"a">>, <<"?">> >>, << <<"b">>, <<"a">> >> >>,
                          CategoryNames[1])
               EXCEPT !.row_count = 2])}
      \cup {Value(type, NoCategory) : type \in {"str", "dict", "CIFColumn", "NoneType"}}

\* The outcome of an assignment: the key, the value and what was raised.
AssignCall(key, value, exc) ==
    [op |-> "__setitem__", key |-> key, value |-> value, exc |-> exc]

\* block = CIFBlock({...}), CIFBlock() or CIFBlock.deserialize(text)
NewBlock ==
    /\ file = NoFile /\ fout.op = "none"
    /\ \E categories \in ProgramBlocks \cup {CIFBlock(<<>>)}
                           \cup {CIFBlock_deserialize(body).categories :
                                    body \in {t \in BlockBodies :
                                                 CIFBlock_deserialize(t).exc = "None"}} :
          /\ file' = CIFFile(<<[key |-> BlockNames[1], val |-> categories]>>)
          /\ fout' = [NoFileCall EXCEPT !.op = "__init__"]
    /\ UNCHANGED <<forig, ftext, parses, colVars, quoteVars, catVars, objVars>>

\* block[key] = value for a value built for this call; forig keeps the file
\* as it was before the call
SetCategory ==
    /\ file # NoFile
    /\ \E k \in 1..Len(AssignKeys) : \E value \in AssignValues :
          LET Returned(r) ==
                  /\ file' = [file EXCEPT ![1].val.categories = r.categories]
                  /\ forig' = file
                  /\ fout' = AssignCall(AssignKeys[k], value, r.exc)
          IN  Returned(CIFBlock_setitem(file[1].val.categories, AssignKeys[k], value))
    /\ UNCHANGED <<ftext, parses, colVars, quoteVars, catVars, objVars>>

NextAssign ==
    \/ NewBlock
    \/ SetCategory

SpecAssign == Init /\ [][NextAssign]_vars

(***************************************************************************)
(* CIFBlock.deserialize of the text of a block: one call per behaviour.    *)
(***************************************************************************)
\* The lines of a block text: fields of the categories a and b, a loop
\* marker, a comment, a blank line and a line of values.
ScanLines ==
    {<<US, "a", ".", "x", SP, "1">>,
     <<US, "a", ".", "y", SP, "2">>,
     <<US, "b", ".", "x", SP, "1">>,
     LoopPrefix,
     <<"#">>,
     <<>>,
     <<"1", SP, "2">>}

\* The outcome of a call of CIFBlock.deserialize: the lines of its text and
\* what was raised.
ScanCall(lines, exc) == [op |-> "deserialize", lines |-> lines, exc |-> exc]

\* block = CIFBlock.deserialize(text), kept as the only block of the file
ScanBlock ==
    /\ file = NoFile /\ fout.op = "none"
    /\ \E lines \in SeqFrom1(ScanLines, MaxLines) :
          LET Returned(text, r) ==
                  /\ ftext' = text
                  /\ fout' = ScanCall(lines, r.exc)
                  /\ file' = IF r.exc # "None" THEN NoFile
                             ELSE CIFFile(<<[key |-> BlockNames[1], val |-> r.categories]>>)
              Call(text) == Returned(text, CIFBlock_deserialize(text))
          IN  Call(TextOf(lines))
    /\ UNCHANGED <<forig, parses, colVars, quoteVars, catVars, objVars>>

NextScan == ScanBlock

SpecScan == Init /\ [][NextScan]_vars

(***************************************************************************)
(* Blocks that share CIFCategory objects: a file of blocks built by the    *)
(* program around two objects, or read from text, whose categories are     *)
(* read and serialized.                                                    *)
(***************************************************************************)
\* The names the two objects have when the blocks are built: none, or one
\* that is no key of a block.
SharedNames == {NoName, <<"q">>}

\* The two objects: a category of one row and a category of two rows.
SharedObjects(names) ==
    <<NewCategoryOf(1, << << <<"a">> >> >>, names[1]),
      NewCategoryOf(1, << << <<"a">>, <<"b">> >> >>, names[2])>>

\* The text of a block as read from a file: one category of one row per
\* key, each followed by a comment line.
SharedBody ==
    KeyText(CategoryNames[1], ColumnNames[1]) \o <<SP, "1", NL, "#", NL>>
      \o KeyText(CategoryNames[2], ColumnNames[2]) \o <<SP, "2", NL, "#", NL>>

\* The blocks: one object under one key, one object under both keys, both
\* objects in either order, and a block read from text.
SharedBlocks ==
    LET Block(ids) ==
            CIFBlock_shared([j \in 1..Len(ids) |->
                                [key |-> CategoryNames[j], val |-> ids[j]]])
    IN  {Block(<<1>>), Block(<<1, 1>>), Block(<<1, 2>>), Block(<<2, 1>>),
         Unparsed(CIFBlock_deserialize(SharedBody).categories)}

\* The outcome of a call on block number block of the file.
SharedCall(op, block, key, exc, text) ==
    [op |-> op, block |-> block, key |-> key, exc |-> exc, text |-> text]

\* file = CIFFile({...}) of blocks around the two objects
NewSharedFile ==
    /\ file = NoFile /\ fout.op = "none"
    /\ \E names \in [1..2 -> SharedNames] : heap' = SharedObjects(names)
    /\ \E n \in 1..Len(BlockNames) : \E blocks \in [1..n -> SharedBlocks] :
          file' = CIFFile([i \in 1..n |-> [key |-> BlockNames[i], val |-> blocks[i]]])
    /\ fout' = SharedCall("__init__", 0, <<>>, "None", <<>>)
    /\ UNCHANGED <<forig, ftext, parses, threads, colVars, quoteVars, catVars>>

\* file[block][key]
GetShared ==
    /\ file # NoFile /\ heap # <<>>
    /\ \E i \in 1..Len(file) : \E j \in 1..Len(file[i].val.categories) :
          LET Returned(key, r) ==
                  /\ file' = [file EXCEPT ![i].val.categories = r.categories]
                  /\ heap' = r.heap
                  /\ fout' = SharedCall("get", i, key, r.exc, <<>>)
              Get_(key) ==
                  Returned(key, CIFBlock_getitem_shared(file[i].val.categories, heap, key))
          IN  Get_(file[i].val.categories[j].key)
    /\ UNCHANGED <<forig, ftext, parses, threads, colVars, quoteVars, catVars>>

\* file[block].serialize()
SerializeShared ==
    /\ file # NoFile /\ heap # <<>>
    /\ \E i \in 1..Len(file) :
          LET Returned(r) ==
                  /\ heap' = r.heap
                  /\ fout' = SharedCall("serialize", i, <<>>, r.exc, r.text)
          IN  Returned(CIFBlock_serialize_shared(file[i].val.categories, heap, 1, <<>>))
    /\ UNCHANGED <<file, forig, ftext, parses, threads, colVars, quoteVars, catVars>>

NextShared ==
    \/ NewSharedFile
    \/ GetShared
    \/ SerializeShared

SpecShared == Init /\ [][NextShared]_vars

(***************************************************************************)
(* Two threads in __getitem__ of one container, a CIFBlock or a CIFFile,   *)
(* for the same key, without a lock.  The container is as read from text;  *)
(* file is its dict of slots and heap holds the objects that the threads   *)
(* parse: a CIFCategory for a CIFBlock, the categories of a CIFBlock for a *)
(* CIFFile.  Each thread reads the slot, parses the text it read, writes   *)
(* the slot and returns; a caller may then modify the object it received.  *)
(***************************************************************************)
Threads == 1..2

\* The local variable of __getitem__ before it is bound.
Unbound == [kind |-> "unbound", text |-> <<>>, id |-> NoObject]

\* The text of a block that holds a category whose only field has no value
\* and a well-formed one.
RaceBody ==
    KeyText(CategoryName, ColumnNames[1]) \o <<NL, "#", NL>>
      \o KeyText(CategoryNames[1], ColumnNames[1]) \o <<SP, "1", NL, "#", NL>>

\* The text of a file: a block of two categories and a block that is a
\* loop_ line with nothing after it.
RaceFileText ==
    DataPrefix \o BlockNames[1] \o <<NL, "#", NL>> \o SharedBody
      \o DataPrefix \o BlockNames[2] \o <<NL, "#", NL>> \o LoopPrefix

\* The containers: their class and their dict as read from text.
RaceContainers ==
    {[class |-> "CIFBlock", slots |-> Unparsed(CIFBlock_deserialize(body).categories)] :
        body \in {SharedBody, RaceBody}}
      \cup {[class |-> "CIFFile", slots |-> Unparsed(CIFFile_deserialize(RaceFileText))]}

\* CIFCategory.deserialize or CIFBlock.deserialize as __getitem__ of the
\* class calls it: [exc, obj].
Deserialize(class, text, key) ==
    LET OfCategory(r) == [exc |-> r.exc, obj |-> r.cat]
        OfBlock(r) == [exc |-> r.exc, obj |-> r.categories]
    IN  IF class = "CIFBlock"
        THEN OfCategory(CIFCategory_deserialize(text, key # AtomSite))
        ELSE OfBlock(CIFBlock_deserialize(text))

\* The update of the slot that leaves a slot alone that holds an object
\* already.
Updated_if_text(slots, key, category) ==
    IF Get(slots, key).kind = "str" THEN Put(slots, key, category) ELSE slots

\* self._categories[key] = category, self._blocks[key] = block
Updated(slots, key, category) == Put(slots, key, category)

\* What a caller does to the object it received: category["y"] = ["a"] on
\* a CIFCategory, block["n"] = CIFCategory({"x": ["a"]}) on a CIFBlock.
Modified(class, obj) ==
    IF class = "CIFBlock"
    THEN CIFCategory_setitem(obj, ColumnNames[2], TextColumn(<< <<"a">> >>))
    ELSE CIFBlock_setitem(obj, <<"n">>,
                          Value("CIFCategory",
                                NewCategoryOf(1, << << <<"a">> >> >>, NoName))).categories

\* CIFBlock.__eq__ for blocks whose categories can be parsed.
BlockEq(a, b) ==
    /\ {a[i].key : i \in 1..Len(a)} = {b[i].key : i \in 1..Len(b)}
    /\ \A i \in 1..Len(a) :
          CategoryEq(CIFBlock_getitem(a, a[i].key).ret, CIFBlock_getitem(b, a[i].key).ret)

\* a == b for two objects of the element class of the container
ObjectEq(class, a, b) ==
    IF class = "CIFBlock" THEN CategoryEq(a, b) ELSE BlockEq(a, b)

\* The calls in progress: the class of the container, the key, the text of
\* the slot when the calls began and the threads that wrote the slot, in
\* the order of their writes.
RaceCall(class, key, text, writes) ==
    [op |-> "get", class |-> class, key |-> key, text |-> text, writes |-> writes]

\* both threads call container[key] for a key whose slot holds text
StartRace ==
    /\ file = NoFile /\ fout.op = "none"
    /\ \E c \in RaceContainers : \E k \in 1..Len(c.slots) :
          /\ file' = c.slots
          /\ fout' = RaceCall(c.class, c.slots[k].key, c.slots[k].val.text, <<>>)
    /\ heap' = <<>>
    /\ threads' = [t \in Threads |-> [pc |-> "read", category |-> Unbound,
                                      modified |-> FALSE]]
    /\ UNCHANGED <<forig, ftext, parses, colVars, quoteVars, catVars>>

\* category = self._categories[key] and the test isinstance(category, str)
ReadSlot ==
    /\ \E t \in DOMAIN threads :
          /\ threads[t].pc = "read"
          /\ threads' = [threads EXCEPT
                            ![t].category = Get(file, fout.key),
                            ![t].pc = IF Get(file, fout.key).kind = "str"
                                      THEN "parse" ELSE "return"]
    /\ UNCHANGED <<file, forig, ftext, fout, parses, heap, colVars, quoteVars, catVars>>

\* category = CIFCategory.deserialize(category, expect_whitespace), or the
\* DeserializationError raised in its place
ParseText ==
    /\ \E t \in DOMAIN threads :
          /\ threads[t].pc = "parse"
          /\ LET Returned(r) ==
                     IF r.exc # "None"
                     THEN /\ threads' = [threads EXCEPT ![t].pc = "raised"]
                          /\ heap' = heap
                     ELSE /\ threads' = [threads EXCEPT
                                            ![t].category = ObjectSlot(Len(heap) + 1),
                                            ![t].pc = "write"]
                          /\ heap' = Append(heap, r.obj)
             IN  Returned(Deserialize(fout.class, threads[t].category.text, fout.key))
    /\ UNCHANGED <<file, forig, ftext, fout, parses, colVars, quoteVars, catVars>>

\* self._categories[key] = category
WriteSlot ==
    /\ \E t \in DOMAIN threads :
          /\ threads[t].pc = "write"
          /\ file' = Updated(file, fout.key, threads[t].category)
          /\ fout' = [fout EXCEPT !.writes = Append(@, t)]
          /\ threads' = [threads EXCEPT ![t].pc = "return"]
    /\ UNCHANGED <<forig, ftext, parses, heap, colVars, quoteVars, catVars>>

\* return category
ReturnObject ==
    /\ \E t \in DOMAIN threads :
          /\ threads[t].pc = "return"
          /\ threads' = [threads EXCEPT ![t].pc = "done"]
    /\ UNCHANGED <<file, forig, ftext, fout, parses, heap, colVars, quoteVars, catVars>>

\* the caller of a thread that returned modifies the object it received
ModifyReceived ==
    /\ \E t \in DOMAIN threads :
          /\ threads[t].pc = "done" /\ ~threads[t].modified
          /\ heap' = [heap EXCEPT ![threads[t].category.id] = Modified(fout.class, @)]
          /\ threads' = [threads EXCEPT ![t].modified = TRUE]
    /\ UNCHANGED <<file, forig, ftext, fout, parses, colVars, quoteVars, catVars>>

NextRace ==
    \/ StartRace
    \/ ReadSlot
    \/ ParseText
    \/ WriteSlot
    \/ ReturnObject
    \/ ModifyReceived

SpecRace == Init /\ [][NextRace]_vars

(***************************************************************************)
(* Properties of CIFColumn.                                                *)
(***************************************************************************)
Built == col # NoColumn

\* The column was built from text values without an explicit mask.
InferredFromText ==
    Built /\ ~args.data.cifdata /\ args.data.dtype = "str" /\ IsNone(args.mask)

DefaultAsArray ==
    out.op = "as_array" /\ out.arg.dtype = "str" /\ ~out.arg.masked_value.given

AllPresent(c) == \A i \in 1..Len(c.data.array) : MaskAt(c, i) = PRESENT

C8_FloatRendering ==
    /\ (out.op = "as_item" /\ Len(col.data.array) = 1 /\ col.data.dtype = "float"
            /\ MaskAt(col, 1) = PRESENT) =>
        /\ out.ret.exc = "None"
        /\ out.ret.type = "str"
        /\ out.ret.val = Format3f(col.data.array[1])
    /\ (out.op = "as_array" /\ out.arg.dtype = "str" /\ col.data.dtype = "float") =>
        /\ out.ret.exc = "None"
        /\ \A i \in 1..Len(col.data.array) :
            MaskAt(col, i) = PRESENT => out.ret.array[i] = Format3f(col.data.array[i])
    /\ (out.op = "as_item" /\ Len(col.data.array) # 1) => out.ret.exc = "ValueError"

\* The PRESENT values of the column can all be converted to dtype.
PresentConvertible(dtype) ==
    \A i \in 1..Len(col.data.array) :
        MaskAt(col, i) = PRESENT => Convertible(col.data.array[i], col.data.dtype, dtype)

\* C9: as_array with a non-textual target on a column with a mask returns an
\* array of the column's length that holds masked_value (zero when none is
\* given) at every INAPPLICABLE or MISSING position and the converted value at
\* every PRESENT position; the data at the other positions is never
\* converted, so an unconvertible value there raises nothing; the column's
\* data stays as constructed.
C9_MaskedConversion ==
    (out.op = "as_array" /\ out.arg.dtype = "int" /\ ~IsNone(col.mask)) =>
        /\ PresentConvertible("int") =>
            /\ out.ret.exc = "None"
            /\ Len(out.ret.array) = Len(col.data.array)
            /\ \A i \in 1..Len(col.data.array) :
                IF MaskAt(col, i) = PRESENT
                THEN out.ret.array[i] =
                        AsTypeElem(col.data.array[i], col.data.dtype, "int")
                ELSE out.ret.array[i] =
                        IF out.arg.masked_value.given
                        THEN out.arg.masked_value.val ELSE 0
        /\ col.data = CIFColumn(args.data, args.mask).data
        /\ col.mask = CIFColumn(args.data, args.mask).mask

\* C9 witness: the call returned an array for a column that holds the empty
\* string at a MISSING position and a number at a PRESENT one.
C9_Witness ==
    /\ out.op = "as_array" /\ out.arg.dtype = "int" /\ ~IsNone(col.mask)
    /\ col.data.dtype = "str"
    /\ out.ret.exc = "None"
    /\ \E i, j \in 1..Len(col.data.array) :
        /\ MaskAt(col, i) = MISSING /\ col.data.array[i] = <<>>
        /\ MaskAt(col, j) = PRESENT /\ col.data.array[j] = <<"1">>
        /\ out.ret.array[j] = 1

(***************************************************************************)
(* Properties of _quote.                                                   *)
(***************************************************************************)
HasQuoteChar(value) == Contains(value, SQ) \/ Contains(value, DQ)

HasWhitespace(value) == \E c \in Whitespace : Contains(value, c)

AlreadyQuoted(value) == Enclosed(value, SQ) \/ Enclosed(value, DQ)

\* C10 as stated: _quote returns '' for the empty string, an already enclosed
\* value unchanged, a value without quote character, whitespace and leading
\* underscore unchanged; it wraps in single quotes a value with whitespace and
\* no quote character, and a value with a double quote and no single quote;
\* it wraps in double quotes a value that contains a single quote and is not
\* already enclosed in quotes.
C10_QuoteCases ==
    qout # <<>> =>
        /\ qin = <<>> => qout = <<SQ, SQ>>
        /\ AlreadyQuoted(qin) => qout = qin
        /\ (qin # <<>> /\ ~HasQuoteChar(qin) /\ ~HasWhitespace(qin) /\ qin[1] # US) =>
            qout = qin
        /\ (HasWhitespace(qin) /\ ~HasQuoteChar(qin)) => qout = Wrap(qin, SQ)
        /\ (Contains(qin, DQ) /\ ~Contains(qin, SQ) /\ ~AlreadyQuoted(qin)) =>
            qout = Wrap(qin, SQ)
        /\ (Contains(qin, SQ) /\ ~AlreadyQuoted(qin)) => qout = Wrap(qin, DQ)

\* C20 as stated: _quote wraps a value that begins with '_' and is not
\* already enclosed in matching quotes in double quotes.
C20_Original ==
    qout # <<>> /\ qin # <<>> /\ qin[1] = US /\ ~AlreadyQuoted(qin) =>
        qout = Wrap(qin, DQ)

\* C20: _quote wraps a value that begins with '_' in single quotes, whatever
\* characters follow.
C20_MarkerQuoted ==
    qout # <<>> /\ qin # <<>> /\ qin[1] = US => qout = Wrap(qin, SQ)

\* _quote was called with _a and returned '_a'.
C20_Witness ==
    /\ qin = <<US, "a">>
    /\ qout = <<SQ, US, "a", SQ>>

(***************************************************************************)
(* Properties of CIFCategory, CIFBlock and CIFFile.                        *)
(***************************************************************************)
\* C1: a category built by the program with a name, at least one column and
\* one common row count >= 1 serializes, and deserializing the text gives a
\* category equal to it: the same column names, and in every column the
\* same values and the same presence mask.
C1_CategoryRoundTrip ==
    /\ cat # NoCategory /\ cout.op = "serialize" => cout.exc = "None"
    /\ cat # NoCategory /\ cout.op = "deserialize" =>
          /\ cout.exc = "None"
          /\ Len(cout.ret.columns) = Len(cat.columns)
          /\ CategoryEq(cout.ret, cat)

\* C2: the file read from the serialized text of a file built by the program
\* has the same block names in the same order; every block reached by get
\* has the same category names in the same order; every category reached by
\* get equals the original one; and every get succeeds.
C2_FileRoundTrip ==
    forig # NoFile =>
        /\ Keys(file) = Keys(forig)
        /\ fout.op = "get" => fout.exc = "None"
        /\ \A i \in 1..Len(file) :
              file[i].val.kind = "block" =>
                  LET read == file[i].val.categories
                      built == forig[i].val.categories
                  IN  /\ Keys(read) = Keys(built)
                      /\ \A j \in 1..Len(read) :
                            read[j].val.kind = "cat" =>
                                CategoryEq(read[j].val.cat, built[j].val.cat)

\* C3: serialize of a file obtained from deserialize returns, after any
\* sequence of gets on the file and its blocks, the text it returns before
\* the first get.
C3_SerializeUnchanged ==
    forig = NoFile /\ ftext # <<>> /\ fout.op = "serialize" =>
        /\ fout.exc = "None"
        /\ fout.text = CIFFile_serialize(CIFFile_deserialize(ftext)).text

\* The slots of the block with the given categories that hold raw text are
\* those no get has parsed, with the text deserialize stored, and the other
\* slots are in their place.
SlotsAsRead(bkey, categories, text) ==
    LET Same(read) ==
            /\ Keys(categories) = Keys(read)
            /\ \A j \in 1..Len(categories) :
                  IF categories[j].val.kind = "str"
                  THEN /\ categories[j].val = read[j].val
                       /\ ~HasKey(parses, <<bkey, categories[j].key>>)
                  ELSE HasKey(parses, <<bkey, categories[j].key>>)
    IN  Same(CIFBlock_deserialize(text).categories)

\* C4: in any sequence of gets on a file read from text and on its blocks,
\* the raw text of a slot is parsed at most once; the get that parses it
\* puts the object in the place of the text and every successful get returns
\* the object its slot holds; a slot that no get has parsed (so every slot
\* whose key was never requested) holds the raw text deserialize stored.
C4_ParsedOnce ==
    LET Slots(read) ==
            /\ Keys(file) = Keys(read)
            /\ \A i \in 1..Len(file) :
                  IF file[i].val.kind = "str"
                  THEN /\ file[i].val = read[i].val
                       /\ ~HasKey(parses, <<file[i].key>>)
                  ELSE /\ HasKey(parses, <<file[i].key>>)
                       /\ SlotsAsRead(file[i].key, file[i].val.categories,
                                      read[i].val.text)
        Returned(slot) == slot.kind = "cat" /\ slot.cat = fout.cat
    IN  forig = NoFile /\ ftext # <<>> =>
            /\ \A p \in 1..Len(parses) : parses[p].val <= 1
            /\ Slots(CIFFile_deserialize(ftext))
            /\ fout.op = "get" /\ fout.exc = "None" /\ Len(fout.path) = 1 =>
                  /\ Get(file, fout.path[1]).kind = "block"
                  /\ Get(file, fout.path[1]).categories = fout.block
            /\ fout.op = "get" /\ fout.exc = "None" /\ Len(fout.path) = 2 =>
                  Returned(Get(Get(file, fout.path[1]).categories, fout.path[2]))

\* A get of a category returned the cached object of a slot that was parsed
\* once before, while another category of the block and another block of the
\* file were never requested and hold raw text.
C4_Witness ==
    /\ forig = NoFile /\ ftext # <<>>
    /\ fout.op = "get" /\ fout.exc = "None" /\ ~fout.parsed
    /\ Len(fout.path) = 2
    /\ HasKey(parses, fout.path) /\ Get(parses, fout.path) = 1
    /\ \E i \in 1..Len(file) : file[i].val.kind = "str"
    /\ \E j \in 1..Len(Get(file, fout.path[1]).categories) :
          Get(file, fout.path[1]).categories[j].val.kind = "str"

\* C5: deserialize of a looped category text with k names and n * k tokens
\* puts token j (0-based, in reading order) into column j mod k at row
\* j div k, wherever the line breaks between the tokens are; every column
\* has n rows and the columns are in the order of the names.
C5_RoundRobin ==
    cout.op = "deserialize" /\ Len(cout.arg.tokens) > 0 =>
        LET k == Len(cout.arg.names)
            tokens == cout.arg.tokens
            columns == cout.ret.columns
        IN  /\ cout.exc = "None"
            /\ Keys(columns) = cout.arg.names
            /\ \A c \in 1..k :
                  Len(columns[c].val.data.array) = Len(tokens) \div k
            /\ \A j \in 0..(Len(tokens) - 1) :
                  columns[(j % k) + 1].val.data.array[(j \div k) + 1]
                      = tokens[j + 1].value

\* Two rows of three columns were read, the first row wrapped after its
\* first token and the second row starting on the line the first one ends
\* on, with different tokens in the first row.
C5_Witness ==
    /\ cout.op = "deserialize" /\ cout.exc = "None"
    /\ Len(cout.arg.names) = 3 /\ Len(cout.arg.tokens) = 6
    /\ cout.arg.breaks[1] = NL /\ cout.arg.breaks[3] = SP
    /\ cout.arg.tokens[1] # cout.arg.tokens[2]
    /\ cout.ret.columns[2].val.data.array
         = <<cout.arg.tokens[2].value, cout.arg.tokens[5].value>>

(***************************************************************************)
(* Properties of the calls that change a CIFCategory.                      *)
(***************************************************************************)
\* The lengths of the columns of a category.
ColumnLengths(c) == {Len(c.columns[i].val.data.array) : i \in 1..Len(c.columns)}

\* C11: del category[key] on a category with exactly one column raises
\* ValueError and leaves the category with that same column; on a category
\* with two or more columns that has the key it removes exactly that column
\* and leaves the other columns, and their order, as they were.
C11_DeletionGuard ==
    cout.op = "__delitem__" =>
        /\ Len(cout.before.columns) = 1 =>
              cout.exc = "ValueError" /\ cat = cout.before
        /\ Len(cout.before.columns) >= 2 /\ HasKey(cout.before.columns, cout.key) =>
              /\ cout.exc = "None"
              /\ cat.columns = SelectSeq(cout.before.columns,
                                         LAMBDA e : e.key # cout.key)
              /\ Len(cat.columns) = Len(cout.before.columns) - 1
              /\ cat.name = cout.before.name

\* A deletion of the only column of a category was refused.
C11_Witness ==
    /\ cout.op = "__delitem__" /\ cout.exc = "ValueError"
    /\ Keys(cout.before.columns) = <<cout.key>>
    /\ Keys(cat.columns) = <<cout.key>>

\* C12: serialize on a named category whose columns do not all have the same
\* length raises SerializationError and returns no text, whichever column
\* differs and in whatever order the columns were added.
C12_NonUniformRows ==
    /\ cout.op = "serialize"
    /\ cout.before.name # NoName
    /\ Cardinality(ColumnLengths(cout.before)) > 1
    => cout.exc = "SerializationError" /\ cout.text = <<>>

\* serialize was refused for a category whose last column alone is longer
\* than the others.
C12_Witness ==
    /\ cout.op = "serialize" /\ cout.exc = "SerializationError"
    /\ cout.before.name # NoName
    /\ Len(cout.before.columns) = 3
    /\ Len(cout.before.columns[1].val.data.array) = 1
    /\ Len(cout.before.columns[2].val.data.array) = 1
    /\ Len(cout.before.columns[3].val.data.array) = 2

\* C13: serialize raises SerializationError and returns no text when the
\* category has no name and when it has no columns.
C13_NameAndColumnsRequired ==
    /\ cout.op = "serialize"
    /\ cout.before.name = NoName \/ Len(cout.before.columns) = 0
    => cout.exc = "SerializationError" /\ cout.text = <<>>

\* C18: after any sequence of constructions, column assignments, column
\* deletions, reads of row_count and serialize calls, row_count is the length
\* the columns of the category have in common, and serialize succeeds whenever
\* the category is named and all of its columns have one common length of at
\* least 1, whatever lengths an earlier read or serialize saw.
C18_RowCountCurrent ==
    /\ /\ cout.op = "row_count"
       /\ Cardinality(ColumnLengths(cat)) = 1
       => cout.exc = "None" /\ ColumnLengths(cat) = {cout.rows}
    /\ /\ cout.op = "serialize"
       /\ cout.before.name # NoName
       /\ Cardinality(ColumnLengths(cout.before)) = 1
       => cout.exc = "None"

(***************************************************************************)
(* Properties of failing calls on CIFBlock and CIFFile.                    *)
(***************************************************************************)
\* The paths of the slots of file f: <<block key>> for a block and
\* <<block key, category key>> for a category of a parsed block.
SlotPaths(f) ==
    {<<f[i].key>> : i \in 1..Len(f)}
      \cup UNION {{<<f[i].key, f[i].val.categories[j].key>> :
                      j \in 1..Len(f[i].val.categories)} :
                  i \in {b \in 1..Len(f) : f[b].val.kind = "block"}}

\* The slot of file f at a path.
SlotAt(f, path) ==
    IF Len(path) = 1 THEN Get(f, path[1])
    ELSE Get(Get(f, path[1]).categories, path[2])

\* The slot holds raw text that deserialize cannot parse.
Unparsable(slot, path) ==
    /\ slot.kind = "str"
    /\ IF Len(path) = 1 THEN CIFBlock_deserialize(slot.text).exc # "None"
       ELSE CIFCategory_deserialize(slot.text, path[2] # AtomSite).exc # "None"

\* C14: a get on a slot whose raw text cannot be parsed raises
\* DeserializationError for the requested key and changes nothing: the keys
\* and all slots of the container are as before, the slot still holds the
\* same raw text and no parse is recorded; no call changes such a slot, so
\* every later get of the key fails in the same way.
C14_FailedGetKeepsText ==
    [][/\ fout'.op = "get" /\ Unparsable(SlotAt(file, fout'.path), fout'.path) =>
             /\ fout'.exc = "DeserializationError"
             /\ file' = file
             /\ parses' = parses
             /\ fout'.block = <<>> /\ fout'.cat = NoCategory
       /\ fout'.op = "get" /\ fout'.exc # "None" =>
             Unparsable(SlotAt(file', fout'.path), fout'.path)
       /\ \A path \in SlotPaths(file) :
             Unparsable(SlotAt(file, path), path) =>
                 /\ path \in SlotPaths(file')
                 /\ SlotAt(file', path) = SlotAt(file, path)
      ]_vars

\* A get of a category failed on the raw text of its slot, which still holds
\* that text, while another category of the block is parsed.
C14_Witness ==
    /\ fout.op = "get" /\ fout.exc = "DeserializationError"
    /\ Len(fout.path) = 2
    /\ SlotAt(file, fout.path).kind = "str"
    /\ \E j \in 1..Len(Get(file, fout.path[1]).categories) :
          Get(file, fout.path[1]).categories[j].val.kind = "cat"

\* C15: block[key] = value raises TypeError and leaves the block unchanged
\* when the value is not a CIFCategory; for a CIFCategory it stores the
\* category under the key, with the key as the category's name, and leaves
\* the other slots and their order as they were.
C15_AssignCategory ==
    fout.op = "__setitem__" =>
        LET before == forig[1].val.categories
            after == file[1].val.categories
        IN  IF fout.value.type # "CIFCategory"
            THEN fout.exc = "TypeError" /\ file = forig
            ELSE /\ fout.exc = "None"
                 /\ HasKey(after, fout.key)
                 /\ Get(after, fout.key).kind = "cat"
                 /\ Get(after, fout.key).cat.name = fout.key
                 /\ Get(after, fout.key).cat.columns = fout.value.cat.columns
                 /\ Get(after, fout.key).cat.row_count = fout.value.cat.row_count
                 /\ Keys(after) = IF HasKey(before, fout.key) THEN Keys(before)
                                  ELSE Append(Keys(before), fout.key)
                 /\ \A i \in 1..Len(before) :
                       before[i].key # fout.key => after[i] = before[i]

\* A category that had another name was assigned to a new key of a block
\* that holds raw text, and carries the key as its name.
C15_Witness ==
    /\ fout.op = "__setitem__" /\ fout.exc = "None"
    /\ fout.value.cat.name = <<"q">>
    /\ ~HasKey(forig[1].val.categories, fout.key)
    /\ \E i \in 1..Len(forig[1].val.categories) :
          forig[1].val.categories[i].val.kind = "str"
    /\ Get(file[1].val.categories, fout.key).cat.name = fout.key

(***************************************************************************)
(* Properties of CIFCategory.deserialize.                                  *)
(***************************************************************************)
\* The name token of a line: the line up to its first whitespace.
NameToken(line) ==
    SubSeq(line, 1, Cardinality({i \in 1..Len(line) :
                                    \A l \in 1..i : line[l] \notin Whitespace}))

\* C16: CIFCategory.deserialize raises DeserializationError when the first
\* content line (the line after the loop marker line, if there is one) does
\* not start with '_', a ';' continuation line included, and when its name
\* token has no '.' after the name.
C16_NoCategoryName ==
    /\ cout.op = "deserialize"
    /\ \/ cout.first[1] # US
       \/ ~Contains(NameToken(cout.first), ".")
    => cout.exc = "DeserializationError"

\* The text has a line that starts with ';' and, after it, a line that is
\* ';' alone.
HasTextBlock(text) ==
    LET Block(lines) ==
            \E i \in 1..Len(lines) : \E j \in (i + 1)..Len(lines) :
                /\ Len(lines[i]) > 0 /\ lines[i][1] = ";"
                /\ lines[j] = <<";">>
    IN  Block(SplitLines(text))

\* C17: a category with a value v that contains line breaks is serialized
\* with v in a block opened by a line starting with ';' and closed by a line
\* that is ';' alone, and CIFCategory.deserialize of the text returns every
\* such v as it was, each line and line break of it, in the single-row form
\* and in the looped form.
C17_MultilineRoundTrip ==
    LET Values(c) ==
            [i \in 1..Len(c.columns) |->
                <<c.columns[i].key, c.columns[i].val.data.array>>]
        WithBreaks(c) ==
            \E i \in 1..Len(c.columns) :
            \E r \in 1..Len(c.columns[i].val.data.array) :
                Contains(c.columns[i].val.data.array[r], NL)
    IN  /\ cout.op = "serialize" /\ cat # NoCategory /\ WithBreaks(cat) =>
              cout.exc = "None" /\ HasTextBlock(cout.text)
        /\ cout.op = "deserialize" /\ cat # NoCategory /\ WithBreaks(cat) =>
              cout.exc = "None" /\ Values(cout.ret) = Values(cat)

(***************************************************************************)
(* Properties of CIFBlock.deserialize.                                     *)
(***************************************************************************)
\* The category name recorded for a boundary at line j: read from the next
\* line for a loop marker line.
BoundaryName(lines, j) ==
    IF _is_loop_start(lines[j]) THEN _parse_category_name(lines[j + 1])
    ELSE _parse_category_name(lines[j])

\* B is the set of the category boundaries of the lines: the non-blank,
\* non-comment lines that are a loop marker line or carry a category name
\* other than the name of the boundary before.
IsBoundarySet(lines, B) ==
    LET Current(i) ==
            IF \E j \in B : j < i
            THEN BoundaryName(lines, Max({j \in B : j < i}))
            ELSE NoName
        Named(i, name) == name # NoName /\ name # Current(i)
    IN  \A i \in 1..Len(lines) :
            i \in B <=> /\ ~_is_empty(lines[i])
                        /\ \/ _is_loop_start(lines[i])
                           \/ Named(i, _parse_category_name(lines[i]))

\* The boundaries in B in order of appearance.
RECURSIVE InOrder(_)
InOrder(B) ==
    IF B = {} THEN <<>>
    ELSE LET first == CHOOSE j \in B : \A k \in B : j <= k
         IN  <<first>> \o InOrder(B \ {first})

\* C19: the block CIFBlock.deserialize returns has one raw-text slot per
\* category boundary, keyed by the category names in order of appearance,
\* slot i holding the lines from boundary i up to but not including boundary
\* i + 1 (the last slot up to the end of the text), so that the slots are
\* disjoint and hold every line from the first boundary on, as text that
\* was not tokenized.
C19_SlotPerBoundary ==
    fout.op = "deserialize" /\ fout.exc = "None" /\ file # NoFile =>
        LET lines == fout.lines
            slots == file[1].val.categories
            Sliced(starts) ==
                /\ Len(slots) = Len(starts)
                /\ \A i \in 1..Len(starts) :
                      /\ slots[i].key = BoundaryName(lines, starts[i])
                      /\ slots[i].val =
                            RawCategory(Join(SubSeq(lines, starts[i],
                                                    IF i < Len(starts)
                                                    THEN starts[i + 1] - 1
                                                    ELSE Len(lines)),
                                             <<NL>>))
        IN  \E B \in SUBSET (1..Len(lines)) :
                IsBoundarySet(lines, B) /\ Sliced(InOrder(B))

(***************************************************************************)
(* Properties of CIFBlock.serialize on shared objects.                     *)
(***************************************************************************)
\* The lines of a parsed category in the text of its block: the lines of
\* the category under the key of its slot and after them a line "#".
SlotLines(slot, key, objects) ==
    Append(SplitLines(CIFCategory_serialize(
                          [objects[slot.id] EXCEPT !.name = key]).text),
           <<"#">>)

\* part is a run of whole lines of lines.
IsRun(lines, part) ==
    \E k \in 0..(Len(lines) - Len(part)) :
        \A i \in 1..Len(part) : lines[k + i] = part[i]

\* Every line that starts with "_" starts with "_<key>.", and every column
\* of the category has its key line.
KeyLinesUnder(lines, key, category) ==
    /\ \A i \in 1..Len(lines) :
          StartsWith(lines[i], <<US>>) => StartsWith(lines[i], <<US>> \o key \o <<".">>)
    /\ \A c \in 1..Len(category.columns) :
          \E i \in 1..Len(lines) :
              StartsWith(lines[i], KeyText(key, category.columns[c].key))

\* The key of the last slot of the block that holds the object.
LastKeyOf(categories, id) ==
    categories[CHOOSE i \in 1..Len(categories) :
                  /\ categories[i].val.id = id
                  /\ \A j \in (i + 1)..Len(categories) : categories[j].val.id # id].key

\* What C21 says of a serialized block: the text has, for every slot that
\* holds a parsed category, the lines of the category and the line "#"; the
\* key lines among them start with "_<key>." for the key of the slot; the
\* object is left with the key of the last slot that holds it as its name.
SerializedUnderKeys(categories) ==
    /\ fout.exc = "None"
    /\ \A i \in 1..Len(categories) :
          categories[i].val.kind = "obj" =>
             /\ IsRun(SplitLines(fout.text),
                      SlotLines(categories[i].val, categories[i].key, heap))
             /\ KeyLinesUnder(SlotLines(categories[i].val, categories[i].key, heap),
                              categories[i].key, heap[categories[i].val.id])
             /\ heap[categories[i].val.id].name
                  = LastKeyOf(categories, categories[i].val.id)

\* C21: CIFBlock.serialize writes every parsed category under the key of
\* its slot, each key line starting with "_<key>." whatever name the object
\* had, with a line "#" after the lines of the category, and leaves in each
\* object the last key under which it was written as its name.
C21_SerializeUnderKeys ==
    fout.op = "serialize" => SerializedUnderKeys(file[fout.block].val.categories)

\* C21 for the blocks in which no slot that holds text comes before a slot
\* that holds a parsed category: there the text is as C21 says.
C21_NoTextBefore ==
    LET TextLast(categories) ==
            \A i \in 1..Len(categories) : \A j \in (i + 1)..Len(categories) :
                categories[i].val.kind = "str" => categories[j].val.kind = "str"
    IN  fout.op = "serialize" /\ TextLast(file[fout.block].val.categories)
            => SerializedUnderKeys(file[fout.block].val.categories)

(***************************************************************************)
(* Properties of two unsynchronized gets of one key.                       *)
(***************************************************************************)
\* Both calls returned.
BothDone == threads # <<>> /\ \A t \in Threads : threads[t].pc = "done"

\* The object that the call of thread t returned.
Received(t) == heap[threads[t].category.id]

\* The object that the slot of the key holds.
Held == heap[Get(file, fout.key).id]

\* C22 as stated: after both calls the slot holds a parsed object, the two
\* callers hold equal objects, and, as after two calls one after the other
\* (where both return the one object held by the slot), each caller's object
\* equals the object held by the slot, whether or not a caller modified the
\* object it received.
C22_Original ==
    BothDone =>
        /\ Get(file, fout.key).kind = "obj"
        /\ ObjectEq(fout.class, Received(1), Received(2))
        /\ \A t \in Threads : ObjectEq(fout.class, Held, Received(t))

\* C22, amended: after both calls the slot holds the parsed object that the
\* last write stored; there are as many objects as writes, one when a
\* thread read the slot after the other's write (both callers then hold
\* that one object) and two distinct ones when both read the text; and
\* each caller's object is the deserialized text changed by the
\* modifications made to that very object only.
C22_LastWriteWins ==
    BothDone =>
        LET AsParsed(obj) ==
                /\ Get(file, fout.key).kind = "obj"
                /\ fout.writes # <<>>
                /\ Get(file, fout.key).id
                     = threads[fout.writes[Len(fout.writes)]].category.id
                /\ Len(heap) = Len(fout.writes)
                /\ (threads[1].category.id = threads[2].category.id)
                     <=> (Len(fout.writes) = 1)
                /\ \A t \in Threads :
                      Received(t)
                        = IF \E u \in Threads :
                                /\ threads[u].modified
                                /\ threads[u].category.id = threads[t].category.id
                          THEN Modified(fout.class, obj)
                          ELSE obj
        IN  AsParsed(Deserialize(fout.class, fout.text, fout.key).obj)

\* Both threads parsed the text, thread 1 wrote first and its caller
\* modified the object it received; the slot holds the object of thread 2,
\* which is without the modification.
C22_Witness ==
    /\ BothDone
    /\ fout.writes = <<1, 2>>
    /\ threads[1].modified /\ ~threads[2].modified
    /\ Get(file, fout.key).id = threads[2].category.id
    /\ ~ObjectEq(fout.class, Held, Received(1))

====
